---- MODULE Spec2Model ----
(***************************************************************************)
(* Beef Brain core (bnb-core): the recomputation engine of a character     *)
(* sheet.  updateCalculatedFields parses a YAML text, resolves the ability *)
(* scores and modifiers, propagates the strength modifier into carrying    *)
(* capacity, melee attacks, named weapons, grapple and skills, and returns *)
(* either the input text or the compact re-rendering of the mutated tree.  *)
(*                                                                         *)
(* The parsed document is a tree of tagged nodes [t, v]:                   *)
(*   "num" an integer, "nan" the number NaN, "str" a string held as the    *)
(*   sequence of its characters, "null", "undef" (JavaScript undefined),   *)
(*   "map" an ordered sequence of pairs [k, v], "seq" a sequence of nodes. *)
(***************************************************************************)
EXTENDS Integers, Sequences, FiniteSets, TLC

VARIABLES input, runs, validated

vars == <<input, runs, validated>>

(***************************************************************************)
(* Bounds of the model.                                                    *)
(***************************************************************************)
\* recompute is called on the input and then on its own output
MaxCalls == 2
\* strength scores of the score sweep run from 0 - MaxNegScore to MaxScore
MaxNegScore == 4
MaxScore == 52

\* the one element of a singleton set; {e(x) : x \in {v}} names a value once,
\* as a const binding does
Only(S) == CHOOSE x \in S : TRUE

\* a list given by its elements, built at once
Listed(f) == f \o <<>>

(***************************************************************************)
(* Document model: the values parseYAML yields and JavaScript's reading of *)
(* them.                                                                   *)
(***************************************************************************)
Undef == [t |-> "undef", v |-> 0]
Null == [t |-> "null", v |-> 0]
NaN == [t |-> "nan", v |-> 0]
Num(n) == [t |-> "num", v |-> n]
Str(cs) == [t |-> "str", v |-> cs]
Map(pairs) == [t |-> "map", v |-> pairs]
Arr(items) == [t |-> "seq", v |-> items]
Pair(key, val) == [k |-> key, v |-> val]

\* Array.isArray(x)
IsArray(n) == n.t = "seq"
\* typeof x === 'object' (null included, as in JavaScript)
IsObjectType(n) == n.t \in {"map", "seq", "null"}
\* typeof x === 'number'
IsNumber(n) == n.t \in {"num", "nan"}
\* typeof x === 'string'
IsString(n) == n.t = "str"
\* the truthiness of a value in a condition
Truthy(n) ==
  CASE n.t = "undef" -> FALSE
    [] n.t = "null" -> FALSE
    [] n.t = "nan" -> FALSE
    [] n.t = "num" -> n.v # 0
    [] n.t = "str" -> Len(n.v) > 0
    [] OTHER -> TRUE

\* a === b for the comparisons the code makes (the right-hand side is always
\* a freshly computed number or string; NaN equals nothing, objects compare
\* by reference and never equal a primitive)
StrictEq(a, b) == a.t = b.t /\ a.t \in {"num", "str", "null", "undef"} /\ a.v = b.v

\* 'key' in obj, for a mapping
HasKey(n, key) == n.t = "map" /\ \E i \in 1..Len(n.v) : n.v[i].k = key

\* obj.key, obj[key]: undefined when the key is absent or obj holds no keys
Get(n, key) ==
  IF HasKey(n, key)
  THEN n.v[CHOOSE i \in 1..Len(n.v) : n.v[i].k = key].v
  ELSE Undef

\* arr[i], zero-based
Idx(n, i) == IF n.t = "seq" /\ i >= 0 /\ i < Len(n.v) THEN n.v[i + 1] ELSE Undef

\* one step of a path: a key of a mapping or a zero-based index of a sequence
Child(n, step) ==
  IF n.t = "map" THEN Get(n, step)
  ELSE IF n.t = "seq" THEN Idx(n, step)
  ELSE Undef

\* a?.b?.c : undefined as soon as a step is missing
RECURSIVE GetIn(_, _)
GetIn(n, path) ==
  IF Len(path) = 0 THEN n ELSE GetIn(Child(n, Head(path)), Tail(path))

\* obj[key] = val on the pairs of a mapping: an existing key keeps its place,
\* a new key is appended
PutPair(pairs, key, val) ==
  IF \E i \in 1..Len(pairs) : pairs[i].k = key
  THEN Listed([i \in 1..Len(pairs) |-> IF pairs[i].k = key THEN Pair(key, val) ELSE pairs[i]])
  ELSE Append(pairs, Pair(key, val))

\* arr[i] = val, zero-based; index Len appends
PutItem(items, i, val) ==
  IF i < Len(items)
  THEN Listed([j \in 1..Len(items) |-> IF j = i + 1 THEN val ELSE items[j]])
  ELSE Append(items, val)

\* in-place assignment at a path of the tree
RECURSIVE SetIn(_, _, _)
SetIn(n, path, val) ==
  IF Len(path) = 0 THEN val
  ELSE IF n.t = "map"
  THEN Only({Map(PutPair(n.v, Head(path), child)) :
             child \in {SetIn(Get(n, Head(path)), Tail(path), val)}})
  ELSE IF n.t = "seq"
  THEN Only({Arr(PutItem(n.v, Head(path), child)) :
             child \in {SetIn(Idx(n, Head(path)), Tail(path), val)}})
  ELSE n

\* the keys Object.entries / Object.keys enumerate, in order
EntryKeys(n) ==
  IF n.t = "map" THEN Listed([i \in 1..Len(n.v) |-> n.v[i].k])
  ELSE IF n.t = "seq" THEN Listed([i \in 1..Len(n.v) |-> i - 1])
  ELSE <<>>

\* Object.values(obj)
Values(n) ==
  IF n.t = "map" THEN Listed([i \in 1..Len(n.v) |-> n.v[i].v])
  ELSE IF n.t = "seq" THEN n.v
  ELSE <<>>

(***************************************************************************)
(* Numbers as text: `${n}`.                                                *)
(***************************************************************************)
DigitChars == <<"0", "1", "2", "3", "4", "5", "6", "7", "8", "9">>

IsDigit(c) == \E i \in 1..Len(DigitChars) : DigitChars[i] = c

RECURSIVE NatChars(_)
NatChars(n) ==
  IF n < 10 THEN <<DigitChars[n + 1]>>
  ELSE Append(NatChars(n \div 10), DigitChars[(n % 10) + 1])

\* String(n) of an integer
IntChars(n) == IF n < 0 THEN <<"-">> \o NatChars(0 - n) ELSE NatChars(n)

\* Number(s) of a string of decimal digits with an optional sign; any other
\* string is not a number
RECURSIVE DigitsValue(_, _)
DigitsValue(cs, acc) ==
  IF Len(cs) = 0 THEN acc
  ELSE Only({DigitsValue(rest, value) :
             rest \in {Tail(cs)},
             value \in {10 * acc + (CHOOSE d \in 0..9 : DigitChars[d + 1] = Head(cs))}})

AllDigits(cs) == Len(cs) > 0 /\ \A i \in 1..Len(cs) : IsDigit(cs[i])

\* the number an arithmetic operator reads from a value
ToNumber(n) ==
  CASE n.t = "num" -> n
    [] n.t = "null" -> Num(0)
    [] n.t = "str" /\ AllDigits(n.v) -> Num(DigitsValue(n.v, 0))
    [] n.t = "str" /\ Len(n.v) > 1 /\ n.v[1] = "-" /\ AllDigits(Tail(n.v)) ->
         Num(0 - DigitsValue(Tail(n.v), 0))
    [] OTHER -> NaN

\* String(x), as string concatenation reads a value
RECURSIVE JsText(_)
RECURSIVE JoinText(_)
JsText(n) ==
  CASE n.t = "num" -> IntChars(n.v)
    [] n.t = "str" -> n.v
    [] n.t = "nan" -> <<"N", "a", "N">>
    [] n.t = "null" -> <<"n", "u", "l", "l">>
    [] n.t = "undef" -> <<"u", "n", "d", "e", "f", "i", "n", "e", "d">>
    [] n.t = "map" -> <<"[", "o", "b", "j", "e", "c", "t", " ", "O", "b", "j", "e", "c", "t", "]">>
    [] OTHER -> JoinText(n.v)
JoinText(items) ==
  IF Len(items) = 0 THEN <<>>
  ELSE IF Len(items) = 1 THEN JsText(items[1])
  ELSE JsText(items[1]) \o <<",">> \o JoinText(Tail(items))

\* a + b
JsAdd(a, b) ==
  IF a.t \in {"str", "map", "seq"} \/ b.t \in {"str", "map", "seq"}
  THEN Str(JsText(a) \o JsText(b))
  ELSE IF ToNumber(a).t = "num" /\ ToNumber(b).t = "num"
  THEN Num(ToNumber(a).v + ToNumber(b).v)
  ELSE NaN

(***************************************************************************)
(* The pass.  A pass state holds the parsed tree, mutated in place, the    *)
(* change flag, and whether a TypeError was thrown.                        *)
(***************************************************************************)
PassState(d, h, e) == [data |-> d, hasChanges |-> h, err |-> e]

\* obj.path = val together with hasChanges = true
Assign(st, path, val) ==
  Only({PassState(data, TRUE, st.err) :
        data \in {Only({SetIn(st.data, path, v) : v \in {val}})}})

\* hasChanges = true
Touch(st) == PassState(st.data, TRUE, st.err)

\* an uncaught TypeError ends the pass
Throw(st) == PassState(st.data, st.hasChanges, TRUE)

(***************************************************************************)
(* Ability resolver: calculateAbilityScores and sumOfValues.               *)
(***************************************************************************)
RECURSIVE ReduceAdd(_, _)
ReduceAdd(vals, acc) ==
  IF Len(vals) = 0 THEN acc
  ELSE Only({ReduceAdd(rest, sum) : rest \in {Tail(vals)}, sum \in {JsAdd(acc, Head(vals))}})

\* Object.values(obj).reduce((sum, val) => sum + val, 0)
sumOfValues(obj) == ReduceAdd(Values(obj), Num(0))

\* a mutant of AbilityModifier: integer division truncating toward zero
AbilityModifierTruncating(score) ==
  IF ToNumber(score).t = "num"
  THEN LET d == ToNumber(score).v - 10
       IN Num(IF d < 0 THEN 0 - ((0 - d) \div 2) ELSE d \div 2)
  ELSE NaN

\* Math.floor((score - 10) / 2)
AbilityModifier(score) ==
  IF ToNumber(score).t = "num"
  THEN Num((ToNumber(score).v - 10) \div 2)
  ELSE NaN

\* a mutant of FirstKey: the bag is rewritten under a fixed name
FirstKeyRenamed(n) == IF Len(n.v) = 0 THEN "" ELSE "mod"

\* Object.keys(modifierData)[0]; the empty string stands for no key, which
\* the code's `firstKey &&` treats alike
FirstKey(n) ==
  IF Len(n.v) = 0 THEN ""
  ELSE IF n.t = "map" THEN n.v[1].k
  ELSE "0"

FirstValue(n) == IF n.t = "map" THEN n.v[1].v ELSE n.v[1]

\* a mutant of TotalScore: the components are read only when the score is unset
TotalScoreKeepingScore(currentScore, calculationDetails) ==
  IF Truthy(currentScore) THEN currentScore
  ELSE IF /\ Truthy(calculationDetails)
          /\ IsObjectType(calculationDetails)
          /\ IsNumber(Get(calculationDetails, "base"))
  THEN sumOfValues(calculationDetails)
  ELSE Num(0)

\* totalScore: the sum of the calculation details when they hold a numeric
\* base, else currentScore || 0
TotalScore(currentScore, calculationDetails) ==
  IF /\ Truthy(calculationDetails)
     /\ IsObjectType(calculationDetails)
     /\ IsNumber(Get(calculationDetails, "base"))
  THEN sumOfValues(calculationDetails)
  ELSE IF Truthy(currentScore) THEN currentScore
  ELSE Num(0)

\* the body of the loop over Object.entries(character.abilities)
AbilityStep(st, abilityName) ==
  LET path == <<"character", "abilities", abilityName>>
      abilityArr == GetIn(st.data, path)
      currentScore == Idx(abilityArr, 0)
      modifierData == Idx(abilityArr, 1)
      calculationDetails == Idx(abilityArr, 2)
  IN IF ~IsArray(abilityArr) THEN st
     ELSE Only({Only({
            IF /\ IsObjectType(modifierData)
               /\ modifierData.t # "null"
               /\ FirstKey(modifierData) # ""
               /\ ~StrictEq(FirstValue(modifierData), modifier)
            THEN Assign(st1, path \o <<1>>, Map(<<Pair(FirstKey(modifierData), modifier)>>))
            ELSE st1 :
              st1 \in {IF ~StrictEq(currentScore, totalScore)
                       THEN Assign(st, path \o <<0>>, totalScore)
                       ELSE st},
              modifier \in {AbilityModifier(totalScore)}}) :
            totalScore \in {TotalScore(currentScore, calculationDetails)}})

\* for (const [abilityName, abilityArr] of Object.entries(character.abilities))
RECURSIVE AbilityLoop(_, _)
AbilityLoop(st, names) ==
  IF Len(names) = 0 THEN st
  ELSE Only({AbilityLoop(next, rest) :
             next \in {AbilityStep(st, Head(names))}, rest \in {Tail(names)}})

calculateAbilityScores(st) ==
  AbilityLoop(st, EntryKeys(GetIn(st.data, <<"character", "abilities">>)))

(***************************************************************************)
(* Propagation rules of updateCalculatedFields.                            *)
(***************************************************************************)
\* data.character.abilities.strength
Strength(data) == GetIn(data, <<"character", "abilities", "strength">>)

\* `${n} lbs`
Lbs(n) == Str(IntChars(n) \o <<" ", "l", "b", "s">>)

\* the heavy load of strength scores 1 to 29
heavyTable ==
  <<10, 20, 30, 40, 50, 60, 70, 80, 90, 100, 115, 130, 150, 175, 200, 230,
    260, 300, 350, 400, 460, 520, 600, 700, 800, 920, 1040, 1200, 1400>>

\* a mutant of HeavyLoad: the draft rule, a doubling of the score-10 load for
\* every started ten points of strength
HeavyLoadDoublingOnly(strengthScore) ==
  IF strengthScore <= 10 THEN 100
  ELSE 100 * 2 ^ ((strengthScore - 1) \div 10)

\* a mutant of HeavyLoad: no interpolation between the doubling points
HeavyLoadNoInterpolation(strengthScore) ==
  IF strengthScore >= 1 /\ strengthScore <= 29
  THEN heavyTable[strengthScore]
  ELSE IF strengthScore >= 30
  THEN 400 * 2 ^ ((strengthScore - 20) \div 10)
  ELSE 10

\* heavy, for an integer strength score.  The code multiplies by the double
\* remainder / 10; for every score below 1200 the doubles give exactly the
\* integer computed here.
HeavyLoad(strengthScore) ==
  IF strengthScore >= 1 /\ strengthScore <= 29
  THEN heavyTable[strengthScore]
  ELSE IF strengthScore >= 30
  THEN LET base == 400
           extra == strengthScore - 20
           factor == extra \div 10
           heavy == base * 2 ^ factor
           remainder == extra % 10
           nextHeavy == base * 2 ^ (factor + 1)
       IN IF remainder > 0
          THEN heavy + ((nextHeavy - heavy) * remainder) \div 10
          ELSE heavy
  ELSE 10

\* a mutant of CapacityValues: the factors of lift and drag are exchanged
CapacityValuesDragFirst(strengthScore) ==
  LET heavy == IF strengthScore.t = "num" THEN HeavyLoad(strengthScore.v) ELSE 10
  IN <<Pair("light", Lbs(heavy \div 3)),
       Pair("medium", Lbs((2 * heavy) \div 3)),
       Pair("heavy", Lbs(heavy)),
       Pair("lift", Lbs(heavy * 5)),
       Pair("drag", Lbs(heavy * 2))>>

\* the five thresholds in the order they are compared and written
CapacityValues(strengthScore) ==
  LET heavy == IF strengthScore.t = "num" THEN HeavyLoad(strengthScore.v) ELSE 10
  IN <<Pair("light", Lbs(heavy \div 3)),
       Pair("medium", Lbs((2 * heavy) \div 3)),
       Pair("heavy", Lbs(heavy)),
       Pair("lift", Lbs(heavy * 2)),
       Pair("drag", Lbs(heavy * 5))>>

CapacityPath == <<"character", "movement", "capacity">>

\* if (cap.key !== text) { cap.key = text; hasChanges = true }
CapacityStep(st, entry) ==
  LET cap == GetIn(st.data, CapacityPath)
  IN IF StrictEq(Get(cap, entry.k), entry.v) THEN st
     ELSE IF cap.t = "map" THEN Assign(st, CapacityPath \o <<entry.k>>, entry.v)
     ELSE IF cap.t = "seq" THEN Touch(st)
     ELSE Throw(st)

\* the five comparisons and writes, one after the other
RECURSIVE CapacityLoop(_, _)
CapacityLoop(st, entries) ==
  IF Len(entries) = 0 \/ st.err THEN st
  ELSE Only({CapacityLoop(next, rest) :
             next \in {CapacityStep(st, Head(entries))}, rest \in {Tail(entries)}})

\* movement carrying capacity update
UpdateCapacity(st) ==
  LET strength == Strength(st.data)
      strengthScore == Idx(strength, 0)
  IN IF /\ Truthy(GetIn(st.data, CapacityPath))
        /\ Truthy(strength)
        /\ IsArray(strength)
        /\ IsNumber(strengthScore)
     THEN CapacityLoop(st, CapacityValues(strengthScore))
     ELSE st

\* strengthMod of the combat and skill rules: undefined unless strength is an
\* array with a numeric score
StrengthMod(data) ==
  IF IsArray(Strength(data)) /\ IsNumber(Idx(Strength(data), 0))
  THEN AbilityModifier(Idx(Strength(data), 0))
  ELSE Undef

\* newValue += typeof value === 'number' ? value : 0
RECURSIVE SumNumeric(_, _)
SumNumeric(vals, acc) ==
  IF Len(vals) = 0 THEN acc
  ELSE Only({SumNumeric(rest, newValue) :
             rest \in {Tail(vals)},
             newValue \in {IF IsNumber(Head(vals)) THEN JsAdd(acc, Head(vals)) ELSE acc}})

\* a mutant of UpdateEntry: the str contribution is written and the total is
\* left as it was
UpdateEntryKeepingTotal(st, entryPath, strengthMod) ==
  LET modifiers == GetIn(st.data, entryPath \o <<1>>)
  IN IF Truthy(modifiers) /\ modifiers.t = "map"
        /\ ~StrictEq(Get(modifiers, "str"), strengthMod)
     THEN Assign(st, entryPath \o <<1, "str">>, strengthMod)
     ELSE st

\* the update of one [total, contributions] entry: set contributions.str,
\* then recompute the total as the sum of the numeric contributions
UpdateEntry(st, entryPath, strengthMod) ==
  LET currentValue == GetIn(st.data, entryPath \o <<0>>)
      modifiers == GetIn(st.data, entryPath \o <<1>>)
  IN IF Truthy(modifiers) /\ IsObjectType(modifiers)
     THEN Only({Only({
            IF ~StrictEq(currentValue, newValue)
            THEN Assign(st1, entryPath \o <<0>>, newValue)
            ELSE st1 :
              newValue \in {IF modifiers.t = "map"
                            THEN SumNumeric(Values(GetIn(st1.data, entryPath \o <<1>>)), Num(0))
                            ELSE SumNumeric(Append(Values(modifiers), strengthMod), Num(0))}}) :
            st1 \in {IF StrictEq(Get(modifiers, "str"), strengthMod) THEN st
                     ELSE IF modifiers.t = "map"
                     THEN Assign(st, entryPath \o <<1, "str">>, strengthMod)
                     ELSE Touch(st)}})
     ELSE st

MeleePath == <<"character", "combat", "attack", "melee">>
GrapplePath == <<"character", "combat", "attack", "grapple">>
SkillsPath == <<"character", "skills">>

\* a mutant of UpdateMeleeGeneric: the entry is updated only when its
\* contributions already hold a str key
UpdateMeleeGenericOnlyKeyed(st, strengthMod) ==
  LET melee == GetIn(st.data, MeleePath)
      generic == Get(melee, "_")
  IN IF /\ Truthy(melee) /\ Truthy(generic) /\ IsArray(generic) /\ Len(generic.v) >= 2
        /\ HasKey(Idx(generic, 1), "str")
     THEN UpdateEntry(st, MeleePath \o <<"_">>, strengthMod)
     ELSE st

\* update generic melee attack
UpdateMeleeGeneric(st, strengthMod) ==
  LET melee == GetIn(st.data, MeleePath)
      generic == Get(melee, "_")
  IN IF Truthy(melee) /\ Truthy(generic) /\ IsArray(generic) /\ Len(generic.v) >= 2
     THEN UpdateEntry(st, MeleePath \o <<"_">>, strengthMod)
     ELSE st

\* the first match of /1d8\+[0-9]+/ starts at From(cs) and ends at To(cs);
\* From is 0 when there is no match
DamageMatchFrom(cs) ==
  LET starts == {i \in 1..Len(cs) :
                   /\ i + 4 <= Len(cs)
                   /\ cs[i] = "1" /\ cs[i + 1] = "d" /\ cs[i + 2] = "8"
                   /\ cs[i + 3] = "+" /\ IsDigit(cs[i + 4])}
  IN IF starts = {} THEN 0 ELSE CHOOSE i \in starts : \A j \in starts : i <= j

RECURSIVE DigitsEnd(_, _)
DigitsEnd(cs, i) ==
  IF i + 1 <= Len(cs) /\ IsDigit(cs[i + 1]) THEN DigitsEnd(cs, i + 1) ELSE i

\* weaponArr[1].replace(/1d8\+[0-9]+/, `1d8+${strengthMod}`)
ReplaceDamage(cs, strengthMod) ==
  LET from == DamageMatchFrom(cs)
      to == DigitsEnd(cs, from + 4)
  IN IF from = 0 THEN cs
     ELSE SubSeq(cs, 1, from - 1) \o <<"1", "d", "8", "+">> \o JsText(strengthMod)
          \o SubSeq(cs, to + 1, Len(cs))

\* a mutant of WeaponAbilityMap: str is written into every ability modifier
\* map, keyed or not
WeaponAbilityMapAlways(st, path, strengthMod) ==
  LET strObj == GetIn(st.data, path \o <<4>>)
  IN IF /\ Truthy(strObj) /\ IsObjectType(strObj)
        /\ ~StrictEq(Get(strObj, "str"), strengthMod)
     THEN Assign(st, path \o <<4, "str">>, strengthMod)
     ELSE st

\* weaponArr[4].str = strengthMod, when weaponArr[4] holds a str key
WeaponAbilityMap(st, path, strengthMod) ==
  LET strObj == GetIn(st.data, path \o <<4>>)
  IN IF /\ Truthy(strObj) /\ IsObjectType(strObj) /\ HasKey(strObj, "str")
        /\ ~StrictEq(Get(strObj, "str"), strengthMod)
     THEN Assign(st, path \o <<4, "str">>, strengthMod)
     ELSE st

\* weaponArr[3]._ = melee._[0], when the generic entry holds a numeric total
\* (the bonus breakdown of the documents modelled is a mapping or absent)
WeaponMirror(st, path) ==
  LET generic == GetIn(st.data, MeleePath \o <<"_">>)
      breakdown == GetIn(st.data, path \o <<3>>)
  IN IF /\ Truthy(generic) /\ IsArray(generic) /\ IsNumber(Idx(generic, 0))
        /\ Truthy(breakdown) /\ breakdown.t = "map"
        /\ ~StrictEq(Get(breakdown, "_"), Idx(generic, 0))
     THEN Assign(st, path \o <<3, "_">>, Idx(generic, 0))
     ELSE st

\* weaponArr[0] = the sum of the numeric values of weaponArr[3]
WeaponAttackBonus(st, path) ==
  LET breakdown == GetIn(st.data, path \o <<3>>)
      current == GetIn(st.data, path \o <<0>>)
      atkBonus == IF Truthy(breakdown) /\ IsObjectType(breakdown)
                  THEN SumNumeric(Values(breakdown), Num(0))
                  ELSE Num(0)
  IN IF IsNumber(current) /\ ~StrictEq(current, atkBonus)
     THEN Assign(st, path \o <<0>>, atkBonus)
     ELSE st

\* the damage string; hasChanges is set whether or not the string changed
WeaponDamage(st, path, strengthMod) ==
  LET damage == GetIn(st.data, path \o <<1>>)
  IN IF IsString(damage)
     THEN Assign(st, path \o <<1>>, Str(ReplaceDamage(damage.v, strengthMod)))
     ELSE st

\* a mutant of WeaponStep: the attack bonus is summed before the generic
\* melee total is mirrored into the bonus breakdown
WeaponStepBonusFirst(st, weaponName, strengthMod) ==
  LET path == MeleePath \o <<weaponName>>
      weaponArr == GetIn(st.data, path)
  IN IF weaponName = "_" THEN st
     ELSE IF IsArray(weaponArr) /\ Len(weaponArr.v) >= 5
     THEN Only({WeaponDamage(mirrored, path, strengthMod) :
                mirrored \in {Only({WeaponMirror(summed, path) :
                summed \in {Only({WeaponAttackBonus(keyed, path) :
                keyed \in {WeaponAbilityMap(st, path, strengthMod)}})}})}})
     ELSE st

\* the body of the loop over the named melee weapons
WeaponStep(st, weaponName, strengthMod) ==
  LET path == MeleePath \o <<weaponName>>
      weaponArr == GetIn(st.data, path)
  IN IF weaponName = "_" THEN st
     ELSE IF IsArray(weaponArr) /\ Len(weaponArr.v) >= 5
     THEN Only({WeaponDamage(summed, path, strengthMod) :
                summed \in {Only({WeaponAttackBonus(mirrored, path) :
                mirrored \in {Only({WeaponMirror(keyed, path) :
                keyed \in {WeaponAbilityMap(st, path, strengthMod)}})}})}})
     ELSE st

RECURSIVE UpdateWeapons(_, _, _)
UpdateWeapons(st, names, strengthMod) ==
  IF Len(names) = 0 \/ st.err THEN st
  ELSE Only({UpdateWeapons(next, rest, strengthMod) :
             next \in {WeaponStep(st, Head(names), strengthMod)}, rest \in {Tail(names)}})

\* update grapple
UpdateGrapple(st, strengthMod) ==
  LET grappleArr == GetIn(st.data, GrapplePath)
  IN IF IsArray(grappleArr) /\ Len(grappleArr.v) >= 2
     THEN UpdateEntry(st, GrapplePath, strengthMod)
     ELSE st

\* the named weapons and grapple, once the generic entry is updated
CombatAfterGeneric(generic, melee, strengthMod) ==
  IF melee.t \in {"undef", "null"} THEN Throw(generic)
  ELSE Only({UpdateGrapple(weapons, strengthMod) :
             weapons \in {Only({UpdateWeapons(st1, EntryKeys(melee), strengthMod) :
                                st1 \in {generic}})}})

\* combat update: generic melee, then the named weapons, then grapple;
\* Object.entries(melee) throws when melee is undefined or null
UpdateCombat(st) ==
  IF /\ Truthy(GetIn(st.data, <<"character", "combat", "attack">>))
     /\ Truthy(Strength(st.data))
     /\ IsNumber(StrengthMod(st.data))
  THEN Only({CombatAfterGeneric(UpdateMeleeGeneric(st, strengthMod),
                                GetIn(st.data, MeleePath), strengthMod) :
             strengthMod \in {StrengthMod(st.data)}})
  ELSE st

\* a mutant of strengthSkills: jump is left out
strengthSkillsWithoutJump == {"climb", "swim"}

\* the strength-based skills
strengthSkills == {"climb", "jump", "swim"}

\* a mutant of IsStrengthSkill: every skill is taken as strength-based
IsStrengthSkillAlways(skillName, modifiers) == TRUE

\* strengthSkills.includes(skillName) || 'str' in modifiers
IsStrengthSkill(skillName, modifiers) ==
  skillName \in strengthSkills \/ HasKey(modifiers, "str")

RECURSIVE UpdateSkillList(_, _, _)
UpdateSkillList(st, names, strengthMod) ==
  IF Len(names) = 0 THEN st
  ELSE LET skillArr == GetIn(st.data, SkillsPath \o <<Head(names)>>)
           modifiers == Idx(skillArr, 1)
       IN Only({UpdateSkillList(next, rest, strengthMod) :
                next \in {IF /\ IsArray(skillArr) /\ Len(skillArr.v) >= 2
                             /\ Truthy(modifiers) /\ IsObjectType(modifiers)
                             /\ IsStrengthSkill(Head(names), modifiers)
                          THEN UpdateEntry(st, SkillsPath \o <<Head(names)>>, strengthMod)
                          ELSE st},
                rest \in {Tail(names)}})

\* skill update
UpdateSkills(st) ==
  LET strengthMod == StrengthMod(st.data)
  IN IF /\ Truthy(GetIn(st.data, SkillsPath))
        /\ Truthy(Strength(st.data))
        /\ IsNumber(strengthMod)
     THEN UpdateSkillList(st, EntryKeys(GetIn(st.data, SkillsPath)), strengthMod)
     ELSE st

(***************************************************************************)
(* Canonical serializer: setSelectiveFlowStyle and dataToCompactYAML.      *)
(* A rendered text is the block skeleton of the tree in which every node   *)
(* rendered in flow style is the sequence of its tokens: the brackets,     *)
(* braces, commas and colons of the line, the keys and the scalars.  Keys  *)
(* and scalars of the documents modelled hold none of : , { } [ ].         *)
(***************************************************************************)
flowStylePaths ==
  << <<"character", "abilities", "*">>,
     <<"character", "levels", "*">>,
     <<"character", "combat", "initiative">>,
     <<"character", "combat", "saves", "*">>,
     <<"character", "combat", "attack", "bab">>,
     <<"character", "combat", "attack", "grapple">>,
     <<"character", "combat", "attack", "melee", "*">>,
     <<"character", "combat", "attack", "ranged", "*">>,
     <<"character", "combat", "defense", "*">>,
     <<"character", "movement", "*">>,
     <<"character", "movement", "capacity">>,
     <<"character", "skills", "*">>,
     <<"character", "special", "feats", "*">>,
     <<"character", "inventory", "_on">>,
     <<"character", "inventory", "*", "*">> >>

\* a mutant of PatternMatches: the pattern has to match a prefix of the path
PatternMatchesPrefix(pattern, path) ==
  /\ Len(pattern) <= Len(path)
  /\ \A i \in 1..Len(pattern) : pattern[i] = "*" \/ pattern[i] = path[i]

\* patternParts.length === pathParts.length && patternParts.every(...)
PatternMatches(pattern, path) ==
  /\ Len(pattern) = Len(path)
  /\ \A i \in 1..Len(pattern) : pattern[i] = "*" \/ pattern[i] = path[i]

\* node.flow = true: the node is a collection and its path matches a pattern
FlowFlagged(node, path) ==
  /\ node.t \in {"map", "seq"}
  /\ \E p \in 1..Len(flowStylePaths) : PatternMatches(flowStylePaths[p], path)

\* the walk from node at path: the paths of the nodes it sets flow on; it
\* goes on into the items of every sequence and the values of every mapping
RECURSIVE setSelectiveFlowStyle(_, _)
setSelectiveFlowStyle(node, path) ==
  (IF FlowFlagged(node, path) THEN {path} ELSE {})
    \cup (IF node.t = "seq"
          THEN UNION { setSelectiveFlowStyle(node.v[i], Append(path, ToString(i - 1))) :
                         i \in 1..Len(node.v) }
          ELSE IF node.t = "map"
          THEN UNION { setSelectiveFlowStyle(node.v[i].v, Append(path, node.v[i].k)) :
                         i \in 1..Len(node.v) }
          ELSE {})

Tok(kind, val) == [tok |-> kind, val |-> val]
Punct(kind) == Tok(kind, Null)

\* the tokens of a node rendered in flow style, without padding
RECURSIVE FlowTokens(_)
RECURSIVE FlowItems(_, _, _)
FlowTokens(node) ==
  IF node.t = "map"
  THEN <<Punct("{")>> \o FlowItems(node, 1, Len(node.v)) \o <<Punct("}")>>
  ELSE IF node.t = "seq"
  THEN <<Punct("[")>> \o FlowItems(node, 1, Len(node.v)) \o <<Punct("]")>>
  ELSE <<Tok("scalar", node)>>
\* the items lo..hi of a collection, each but the last followed by a comma
FlowItems(node, lo, hi) ==
  IF lo > hi THEN <<>>
  ELSE IF lo < hi
  THEN FlowItems(node, lo, (lo + hi) \div 2) \o FlowItems(node, (lo + hi) \div 2 + 1, hi)
  ELSE (IF node.t = "map"
        THEN <<Tok("key", Str(<<node.v[lo].k>>)), Punct(":")>> \o FlowTokens(node.v[lo].v)
        ELSE FlowTokens(node.v[lo]))
       \o (IF lo < Len(node.v) THEN <<Punct(",")>> ELSE <<>>)

\* the least index from i on whose token is of one of the kinds, or 0
FirstOf(toks, i, kinds) ==
  LET hits == {j \in i..Len(toks) : toks[j].tok \in kinds}
  IN IF hits = {} THEN 0 ELSE CHOOSE j \in hits : \A h \in hits : j <= h

\* where a match of /\{([^:}]+):\s([^},]+)\}/ that starts at i ends, or 0:
\* a brace, a first group up to the first colon, a second group up to the
\* next closing brace, with no comma and no closing brace inside
BraceMatchEnd(toks, i) ==
  LET colon == FirstOf(toks, i + 1, {":", "}"})
      close == FirstOf(toks, colon + 1, {"}", ","})
  IN IF /\ toks[i].tok = "{"
        /\ colon > i + 1 /\ toks[colon].tok = ":"
        /\ close > colon + 1 /\ toks[close].tok = "}"
     THEN close
     ELSE 0

\* a mutant of StripBraces: the braces are kept
StripBracesKeeping(toks, i) == toks

\* the matches the global replace finds from token i on: it scans from the
\* left, so a brace inside an earlier match starts none
MatchStarts(toks, i) ==
  {j \in i..Len(toks) : /\ BraceMatchEnd(toks, j) > 0
                        /\ \A h \in i..(j - 1) : BraceMatchEnd(toks, h) < j}

\* result.replace(/\{([^:}]+):\s([^},]+)\}/g, '$1: $2') from token i on: the
\* opening and the closing brace of every match are dropped
StripBraces(toks, i) ==
  LET dropped == MatchStarts(toks, i) \cup {BraceMatchEnd(toks, j) : j \in MatchStarts(toks, i)}
      kept == (i..Len(toks)) \ dropped
  IN [n \in 1..Cardinality(kept) |->
        toks[CHOOSE k \in kept : Cardinality({j \in kept : j <= k}) = n]]

FlowLeaf(toks) == [t |-> "flow", v |-> toks]

\* doc.toString of the flagged document, then the brace stripping
RECURSIVE RenderNode(_, _)
RenderNode(node, path) ==
  IF node.t \in {"map", "seq"} /\ (FlowFlagged(node, path) \/ Len(node.v) = 0)
  THEN Only({FlowLeaf(Listed(StripBraces(toks, 1))) : toks \in {FlowTokens(node)}})
  ELSE IF node.t = "map"
  THEN Map(Listed([i \in 1..Len(node.v) |->
              Pair(node.v[i].k, RenderNode(node.v[i].v, Append(path, node.v[i].k)))]))
  ELSE IF node.t = "seq"
  THEN Arr(Listed([i \in 1..Len(node.v) |->
              RenderNode(node.v[i], Append(path, ToString(i - 1)))]))
  ELSE node

\* a text as the caller wrote it, known by the tree it parses to; marker
\* tells whether it begins with the document-start line `---`
GivenText(tree) == [kind |-> "given", marker |-> TRUE, body |-> tree]
UnmarkedText(tree) == [kind |-> "given", marker |-> FALSE, body |-> tree]

\* the empty text and the texts of white space
BlankText == [kind |-> "blank", marker |-> FALSE, body |-> Null]

\* a mutant of dataToCompactYAML: toString without `directives: true`, which
\* writes no document-start line for a document without directives
dataToCompactYAMLBare(data) ==
  [kind |-> "rendered", marker |-> FALSE, body |-> RenderNode(data, <<>>)]

\* toString with `directives: true` always writes the document-start line;
\* the brace stripping leaves that line alone
dataToCompactYAML(data) ==
  [kind |-> "rendered", marker |-> TRUE, body |-> RenderNode(data, <<>>)]

(***************************************************************************)
(* parseYAML, the external parser, on the texts of the model.              *)
(***************************************************************************)
ParseError == [t |-> "error", v |-> 0]

Parsed(node, rest) == [ok |-> TRUE, node |-> node, rest |-> rest]
NoParse == [ok |-> FALSE, node |-> ParseError, rest |-> <<>>]

\* a flow value at the head of the tokens; inside a flow sequence `key: value`
\* is a single-pair mapping
RECURSIVE ParseValue(_)
RECURSIVE ParseSeqRest(_, _)
RECURSIVE ParseMapRest(_, _)
RECURSIVE ParsePairValue(_)
RECURSIVE ParseSeqNext(_, _)
RECURSIVE ParseMapNext(_, _)
ParseValue(toks) ==
  IF Len(toks) = 0 THEN NoParse
  ELSE IF Head(toks).tok = "[" THEN ParseSeqRest(Tail(toks), <<>>)
  ELSE IF Head(toks).tok = "{" THEN ParseMapRest(Tail(toks), <<>>)
  ELSE IF Head(toks).tok = "scalar" THEN Parsed(Head(toks).val, Tail(toks))
  ELSE NoParse
\* key ":" value at the head of the tokens, as a pair
ParsePairValue(toks) ==
  IF Len(toks) >= 3 /\ toks[1].tok = "key" /\ toks[2].tok = ":"
  THEN Only({IF val.ok THEN Parsed(Pair(toks[1].val.v[1], val.node), val.rest) ELSE NoParse :
             val \in {ParseValue(SubSeq(toks, 3, Len(toks)))}})
  ELSE NoParse
\* one item of a flow sequence at the head of the tokens
ParseItem(toks) ==
  IF Head(toks).tok = "key"
  THEN Only({IF pair.ok THEN Parsed(Map(<<pair.node>>), pair.rest) ELSE NoParse :
             pair \in {ParsePairValue(toks)}})
  ELSE ParseValue(toks)
\* what follows an item or a pair: a comma and more, or the closing token
ParseSeqNext(item, acc) ==
  IF ~item.ok \/ Len(item.rest) = 0 THEN NoParse
  ELSE IF Head(item.rest).tok = ","
  THEN ParseSeqRest(Tail(item.rest), Append(acc, item.node))
  ELSE IF Head(item.rest).tok = "]"
  THEN Parsed(Arr(Append(acc, item.node)), Tail(item.rest))
  ELSE NoParse
ParseMapNext(pair, acc) ==
  IF ~pair.ok \/ Len(pair.rest) = 0 THEN NoParse
  ELSE IF Head(pair.rest).tok = ","
  THEN ParseMapRest(Tail(pair.rest), Append(acc, pair.node))
  ELSE IF Head(pair.rest).tok = "}"
  THEN Parsed(Map(Append(acc, pair.node)), Tail(pair.rest))
  ELSE NoParse
ParseSeqRest(toks, acc) ==
  IF Len(toks) = 0 THEN NoParse
  ELSE IF Head(toks).tok = "]" THEN Parsed(Arr(acc), Tail(toks))
  ELSE Only({ParseSeqNext(item, a) : item \in {ParseItem(toks)}, a \in {acc}})
ParseMapRest(toks, acc) ==
  IF Len(toks) = 0 THEN NoParse
  ELSE IF Head(toks).tok = "}" THEN Parsed(Map(acc), Tail(toks))
  ELSE Only({ParseMapNext(pair, a) : pair \in {ParsePairValue(toks)}, a \in {acc}})

\* the tokens of one flow leaf, read where the leaf stands: after `key: ` in
\* a block mapping a bare `k: v` is a nested compact mapping, which the
\* parser rejects; after `- ` in a block sequence it is a one-pair mapping
ParseLeaf(toks, inSeq) ==
  IF Len(toks) > 0 /\ Head(toks).tok = "key"
  THEN Only({IF inSeq /\ pair.ok /\ Len(pair.rest) = 0 THEN Map(<<pair.node>>)
             ELSE ParseError : pair \in {ParsePairValue(toks)}})
  ELSE Only({IF val.ok /\ Len(val.rest) = 0 THEN val.node ELSE ParseError :
             val \in {ParseValue(toks)}})

\* a block node whose children parsed to vals, or ParseError if one did not
BlockOf(node, vals) ==
  IF \E i \in 1..Len(vals) : vals[i].t = "error" THEN ParseError
  ELSE IF node.t = "map"
  THEN Map(Listed([i \in 1..Len(vals) |-> Pair(node.v[i].k, vals[i])]))
  ELSE Arr(vals)

RECURSIVE ParseBlock(_, _)
ParseBlock(node, inSeq) ==
  IF node.t = "flow" THEN ParseLeaf(node.v, inSeq)
  ELSE IF node.t = "map"
  THEN Only({BlockOf(node, vals) :
             vals \in {Listed([i \in 1..Len(node.v) |-> ParseBlock(node.v[i].v, FALSE)])}})
  ELSE IF node.t = "seq"
  THEN Only({BlockOf(node, vals) :
             vals \in {Listed([i \in 1..Len(node.v) |-> ParseBlock(node.v[i], TRUE)])}})
  ELSE node

\* parseYAML(text): the tree of a text, or ParseError when the parser throws
parseYAML(text) ==
  IF text.kind \in {"given", "blank"} THEN text.body
  ELSE ParseBlock(text.body, FALSE)

\* a text the parser rejects, such as three keys on one line
MalformedText == GivenText(ParseError)

\* a mutant of validateBeefBrainData: the parsed document itself is taken as
\* the verdict, return !!parseYAML(yamlContent)
validateBeefBrainDataTruthy(yamlContent) ==
  IF yamlContent.kind = "blank" THEN TRUE
  ELSE parseYAML(yamlContent).t # "error" /\ Truthy(parseYAML(yamlContent))

\* validateBeefBrainData: true for a blank text, else whether parseYAML
\* returns without throwing
validateBeefBrainData(yamlContent) ==
  IF yamlContent.kind = "blank" THEN TRUE
  ELSE parseYAML(yamlContent).t # "error"

(***************************************************************************)
(* updateCalculatedFields.                                                 *)
(***************************************************************************)
\* each rule runs unless a TypeError was thrown before it
ThenAbilities(st) == IF st.err THEN st ELSE calculateAbilityScores(st)
ThenCombat(st) == IF st.err THEN st ELSE UpdateCombat(st)
ThenSkills(st) == IF st.err THEN st ELSE UpdateSkills(st)

\* a mutant of Pass: the draft order, propagation before ability resolution
PassPropagatingFirst(data) ==
  Only({ThenAbilities(skills) :
        skills \in {Only({ThenSkills(combat) :
        combat \in {Only({ThenCombat(capacity) :
        capacity \in {UpdateCapacity(PassState(data, FALSE, FALSE))}})}})}})

\* the rules in the order of the code: abilities, capacity, combat, skills
Pass(data) ==
  Only({ThenSkills(combat) :
        combat \in {Only({ThenCombat(capacity) :
        capacity \in {Only({UpdateCapacity(abilities) :
        abilities \in {calculateAbilityScores(PassState(data, FALSE, FALSE))}})}})}})

\* the outcome of one call: status "ok" with the returned text, or the error
\* raised to the caller; data is the tree as the pass left it
Outcome(status, text, data, changed) ==
  [status |-> status, text |-> text, data |-> data, changed |-> changed]

\* the end of the function: the new text when something changed
Return(yamlContent, pass) ==
  IF pass.err THEN Outcome("TypeError", yamlContent, pass.data, pass.hasChanges)
  ELSE IF pass.hasChanges
  THEN Outcome("ok", dataToCompactYAML(pass.data), pass.data, TRUE)
  ELSE Outcome("ok", yamlContent, pass.data, FALSE)

Calculate(yamlContent, data) ==
  IF data.t = "error" THEN Outcome("ParseError", yamlContent, data, FALSE)
  ELSE IF data.t = "null" THEN Outcome("TypeError", yamlContent, data, FALSE)
  ELSE IF Get(data, "character").t = "null"
  THEN Outcome("ok", yamlContent, data, FALSE)
  ELSE IF ~Truthy(Get(Get(data, "character"), "abilities"))
  THEN Outcome("ok", yamlContent, data, FALSE)
  ELSE Only({Return(yamlContent, pass) : pass \in {Pass(data)}})

updateCalculatedFields(yamlContent) ==
  Only({Calculate(yamlContent, data) : data \in {parseYAML(yamlContent)}})

(***************************************************************************)
(* The documents the calls are made on.                                    *)
(***************************************************************************)
Slash == <<" ", "s", "l", "a", "s", "h">>

\* [score, {key: modifier}] and [score, {key: modifier}, {components}]
Ability2(score, key, modifier) ==
  Arr(<<Num(score), Map(<<Pair(key, Num(modifier))>>)>>)
Ability3(score, key, modifier, components) ==
  Arr(<<Num(score), Map(<<Pair(key, Num(modifier))>>), Map(components)>>)

\* [total, {contributions}]
Stat(total, contributions) == Arr(<<Num(total), Map(contributions)>>)

\* [attackBonus, damage, critRange, bonusBreakdown, abilityModifierMap, {}, [flag]]
Weapon(bonus, damage, breakdown, abilityMap) ==
  Arr(<<Num(bonus), Str(damage), Str(<<"x", "2">>), Map(breakdown), Map(abilityMap),
        Map(<<>>), Arr(<<Str(<<"m", "w">>)>>)>>)

Section(key, pairs) == IF Len(pairs) = 0 THEN <<>> ELSE <<Pair(key, Map(pairs))>>

Document(abilities, movement, attack, skills) ==
  Map(<<Pair("character",
             Map(Section("abilities", abilities) \o Section("movement", movement)
                 \o Section("combat", Section("attack", attack))
                 \o Section("skills", skills)))>>)

Capacity(values) ==
  [i \in 1..Len(values) |->
     Pair(<<"light", "medium", "heavy", "lift", "drag">>[i], Lbs(values[i]))]

StaleCapacity == <<Pair("capacity", Map(Capacity(<<66, 133, 200, 400, 1000>>)))>>

StrengthOptions ==
  { <<>>,
    <<Pair("strength", Ability2(18, "str", 4))>>,
    <<Pair("strength", Ability2(18, "str", 2))>>,
    <<Pair("strength", Ability2(7, "str", 0))>>,
    <<Pair("strength", Ability3(0, "str", 0,
         <<Pair("base", Num(7)), Pair("orc", Num(2)), Pair("hd", Num(2)),
           Pair("gloves", Num(1))>>))>>,
    <<Pair("strength", Ability3(99, "str", 99, <<Pair("base", Num(18))>>))>> }

DexterityOptions ==
  { <<>>,
    <<Pair("dexterity", Ability2(15, "dex", 0))>>,
    <<Pair("dexterity", Ability3(0, "dex", 0,
         <<Pair("base", Num(5)), Pair("gloves", Num(2))>>))>> }

CapacityOptions ==
  { <<>>,
    StaleCapacity,
    <<Pair("capacity", Map(Capacity(<<100, 200, 300, 600, 1500>>)))>>,
    <<Pair("capacity", Map(<<Pair("heavy", Lbs(100))>>))>>,
    <<Pair("capacity", Map(<<>>))>> }

GenericMelee ==
  Arr(<<Num(3), Map(<<Pair("bab", Num(1)), Pair("str", Num(2))>>),
        Arr(<<Str(<<"b", "f">>)>>)>>)

Longsword ==
  Weapon(4, <<"1", "d", "8", "+", "2">> \o Slash,
         <<Pair("_", Num(2)), Pair("special", Num(1))>>, <<Pair("str", Num(2))>>)

AttackOptions ==
  { <<>>,
    \* the melee entries of the test, with a grapple entry
    <<Pair("melee", Map(<<Pair("_", GenericMelee), Pair("longsword", Longsword)>>)),
      Pair("grapple", Stat(3, <<Pair("bab", Num(1)), Pair("str", Num(2))>>))>>,
    \* the same entries already correct for strength 18
    <<Pair("melee", Map(<<
        Pair("_", Arr(<<Num(5), Map(<<Pair("bab", Num(1)), Pair("str", Num(4))>>)>>)),
        Pair("longsword",
             Weapon(6, <<"1", "d", "8", "+", "4">> \o Slash,
                    <<Pair("_", Num(5)), Pair("special", Num(1))>>,
                    <<Pair("str", Num(4))>>))>>)),
      Pair("grapple", Stat(5, <<Pair("bab", Num(1)), Pair("str", Num(4))>>))>>,
    \* contribution maps without a str key
    <<Pair("melee", Map(<<Pair("_", Stat(1, <<Pair("bab", Num(1))>>))>>)),
      Pair("grapple", Stat(5, <<Pair("bab", Num(1)), Pair("size", Num(4))>>))>>,
    \* no generic entry; a weapon whose ability map is empty, a weapon
    \* without a bonus breakdown key, a tuple of four elements
    <<Pair("melee", Map(<<
        Pair("whip", Weapon(1, <<"1", "d", "3">> \o Slash,
                            <<Pair("_", Num(1))>>, <<>>)),
        Pair("club", Weapon(0, <<"1", "d", "6", "+", "2">> \o Slash,
                            <<Pair("mw", Num(1))>>, <<Pair("str", Num(2))>>)),
        Pair("fist", Arr(<<Num(9), Str(<<"1", "d", "3", "+", "2">>),
                           Str(<<"x", "2">>), Map(<<Pair("_", Num(9))>>)>>))>>))>>,
    \* a generic entry and a weapon whose ability map is empty
    <<Pair("melee", Map(<<Pair("_", GenericMelee),
        Pair("whip", Weapon(1, <<"1", "d", "3">> \o Slash,
                            <<Pair("_", Num(1))>>, <<>>))>>))>>,
    \* grapple alone: melee is absent
    <<Pair("grapple", Stat(3, <<Pair("bab", Num(1)), Pair("str", Num(2))>>))>> }

SkillOptions ==
  { <<>>,
    <<Pair("climb", Stat(3, <<Pair("str", Num(2)), Pair("acp", Num(0 - 3)),
                              Pair("ranks", Num(4))>>)),
      Pair("jump", Stat(0 - 1, <<Pair("str", Num(2)), Pair("acp", Num(0 - 3))>>)),
      Pair("swim", Stat(0 - 4, <<Pair("str", Num(2)), Pair("acp", Num(0 - 6))>>))>>,
    <<Pair("climb", Stat(5, <<Pair("str", Num(4)), Pair("acp", Num(0 - 3)),
                              Pair("ranks", Num(4))>>))>>,
    <<Pair("jump", Stat(4, <<Pair("ranks", Num(4))>>)),
      Pair("spot", Stat(7, <<Pair("wis", Num(1)), Pair("ranks", Num(2))>>)),
      Pair("bash", Stat(2, <<Pair("str", Num(2))>>))>> }

\* every combination of present and absent structures
StructureDocuments ==
  { Document(st \o dx, cap, atk, sk) :
      st \in StrengthOptions, dx \in DexterityOptions, cap \in CapacityOptions,
      atk \in AttackOptions, sk \in SkillOptions }

\* every strength score of the sweep, with and without components, with a
\* capacity table, a str-keyed skill and a generic melee entry to update
SweepScores == (0 - MaxNegScore)..MaxScore

SweepDocuments ==
  { Document(<<Pair("strength", ab)>>, StaleCapacity,
             <<Pair("melee", Map(<<Pair("_", GenericMelee)>>))>>,
             <<Pair("climb", Stat(3, <<Pair("str", Num(2)), Pair("ranks", Num(1))>>))>>) :
      ab \in { Ability2(s, "str", m) : s \in SweepScores, m \in {0, 3} }
             \cup { Ability3(10, "str", 0, <<Pair("base", Num(s - 2)), Pair("orc", Num(2))>>) :
                      s \in SweepScores } }

\* one weapon, every dice expression and modifier term, several strengths
DiceOptions == { <<"1", "d", "8">>, <<"1", "d", "4">>, <<"2", "d", "6">> }
TermOptions == { <<>>, <<"+", "2">>, <<"+", "1", "0">>, <<"-", "1">>, <<"+", "-", "1">> }
WeaponStrengths == { 18, 10, 9, 34 }

WeaponDocuments ==
  { Document(<<Pair("strength", Ability2(s, "str", 0))>>, <<>>,
             <<Pair("melee", Map(<<Pair("_", GenericMelee),
                  Pair("blade", Weapon(4, dice \o term \o Slash,
                                       <<Pair("_", Num(2)), Pair("special", Num(1))>>,
                                       <<Pair("str", Num(2))>>))>>))>>,
             <<>>) :
      s \in WeaponStrengths, dice \in DiceOptions, term \in TermOptions }

\* the sheet of the dexterity tests: initiative, saves, a defense entry, a
\* generic ranged entry with a shortbow, and the dex-keyed skills
Shortbow ==
  Arr(<<Num(0 - 2), Str(<<"1", "d", "6", " ", "p", "i", "e", "r", "c", "i", "n", "g">>),
        Str(<<"x", "3">>), Map(<<Pair("_", Num(0 - 3)), Pair("mw", Num(1))>>),
        Map(<<>>), Map(<<>>), Arr(<<Str(<<"m", "w">>)>>)>>)

GenericRanged ==
  Arr(<<Num(0 - 3), Map(<<Pair("bab", Num(1)), Pair("dex", Num(0 - 4))>>),
        Arr(<<Str(<<"b", "f">>)>>)>>)

SheetAbilityOptions ==
  { <<Pair("dexterity", Ability2(15, "dex", 0 - 4))>>,
    <<Pair("dexterity", Ability2(15, "dex", 0 - 4)),
      Pair("constitution", Ability2(14, "con", 0))>>,
    <<Pair("strength", Ability2(18, "str", 2)),
      Pair("dexterity", Ability2(15, "dex", 0 - 4)),
      Pair("constitution", Ability2(14, "con", 0))>> }

SheetAttackOptions ==
  { <<>>,
    <<Pair("attack", Map(<<
        Pair("ranged", Map(<<Pair("_", GenericRanged), Pair("shortbow", Shortbow)>>))>>))>>,
    <<Pair("attack", Map(<<
        Pair("melee", Map(<<Pair("_", GenericMelee)>>)),
        Pair("ranged", Map(<<Pair("_", GenericRanged), Pair("shortbow", Shortbow)>>))>>))>> }

SheetSaves ==
  Map(<<Pair("fortitude", Stat(1, <<Pair("rogue", Num(0)), Pair("con", Num(1))>>)),
        Pair("reflex", Stat(0 - 2, <<Pair("rogue", Num(2)), Pair("dex", Num(0 - 4))>>)),
        Pair("will", Stat(0 - 1, <<Pair("rogue", Num(0)), Pair("wis", Num(0 - 1))>>))>>)

SheetSkills ==
  Map(<<Pair("balance", Stat(0 - 7, <<Pair("dex", Num(0 - 4)), Pair("acp", Num(0 - 3))>>)),
        Pair("hide", Stat(0 - 7, <<Pair("dex", Num(0 - 4)), Pair("acp", Num(0 - 3)),
                                  Pair("ranks", Num(2))>>)),
        Pair("ride", Stat(0 - 4, <<Pair("dex", Num(0 - 4))>>))>>)

SheetDocuments ==
  { Map(<<Pair("character", Map(<<
        Pair("abilities", Map(abilities)),
        Pair("combat", Map(<<
            Pair("initiative", Stat(0 - 4, <<Pair("dex", Num(0 - 4))>>)),
            Pair("saves", SheetSaves),
            Pair("defense", Map(<<
                Pair("ac", Stat(6, <<Pair("base", Num(10)), Pair("dex", Num(0 - 4))>>))>>))>>
          \o attack)),
        Pair("skills", SheetSkills)>>))>>) :
      abilities \in SheetAbilityOptions, attack \in SheetAttackOptions }

\* the six abilities of the ability tests, with a base only and without
\* components, and strength with a bag keyed by another name
SixAbilities == <<"strength", "dexterity", "constitution", "intelligence", "wisdom", "charisma">>
SixKeys == <<"str", "dex", "con", "int", "wis", "cha">>
SixBases == <<1, 5, 6, 10, 11, 18>>

BagDocuments ==
  { Document([i \in 1..6 |->
                Pair(SixAbilities[i], Ability3(0, SixKeys[i], 0, <<Pair("base", Num(SixBases[i]))>>))],
             <<>>, <<>>, <<>>),
    Document([i \in 1..6 |-> Pair(SixAbilities[i], Ability2(SixBases[i], SixKeys[i], 0))],
             <<>>, <<>>, <<>>),
    Document(<<Pair("strength", Ability2(18, "dex", 0))>>, <<>>, <<>>, <<>>),
    Document(<<Pair("strength", Ability3(0, "mod", 0, <<Pair("base", Num(12))>>))>>,
             <<>>, <<>>, <<>>) }

\* component breakdowns with a numeric base and a value that is no number:
\* a string note, null, a nested mapping
NoteOptions ==
  { <<Pair("base", Num(7)), Pair("orc", Num(2)), Pair("note", Str(<<"o", "r", "c">>))>>,
    <<Pair("note", Str(<<"o", "r", "c">>)), Pair("base", Num(7))>>,
    <<Pair("base", Num(7)), Pair("curse", Null), Pair("orc", Num(2))>>,
    <<Pair("base", Num(7)), Pair("gear", Map(<<Pair("belt", Num(4))>>))>> }

NoteDocuments ==
  { Document(<<Pair("strength", Ability3(0, "str", 0, components))>>, StaleCapacity, <<>>,
             <<Pair("climb", Stat(3, <<Pair("str", Num(2)), Pair("ranks", Num(1))>>))>>) :
      components \in NoteOptions }

\* documents without a character, with a null or abilities-less character,
\* with a root that is no mapping, and the empty document
InertDocuments ==
  { Map(<<Pair("name", Str(<<"G", "i", "m", "l", "i">>))>>),
    Map(<<Pair("character", Null)>>),
    Map(<<Pair("character", Map(<<Pair("name", Str(<<"G", "i", "m", "l", "i">>))>>))>>),
    Num(42),
    Str(<<"G", "i", "m", "l", "i">>),
    Arr(<<Num(1), Num(2)>>),
    Null }

\* a character with levels and an inventory: sequences in block and in flow
\* style, and flow-style paths below flow-style paths
InventoryDocuments ==
  { Map(<<Pair("character",
             Map(<<Pair("abilities", Map(<<Pair("strength", Ability2(18, "str", modifier))>>)),
                   Pair("levels", Arr(<<Arr(<<Num(1), Str(<<"f", "t", "r">>)>>),
                                        Arr(<<Num(2), Str(<<"r", "o", "g">>)>>)>>)),
                   Pair("inventory",
                        Map(<<Pair("_on", Map(<<Pair("belt", Arr(<<Num(1), Num(2)>>)),
                                                Pair("hand", Map(<<Pair("sword", Num(1)),
                                                                   Pair("torch", Num(2))>>))>>)),
                              Pair("pack", Map(<<Pair("rope", Arr(<<Num(1), Num(10)>>)),
                                                 Pair("coins", Num(5))>>))>>))>>))>>) :
      modifier \in {2, 4} }

\* a whole sheet: a name beside the character, strength with components,
\* dexterity, a speed beside the capacity, saves, melee with a generic entry,
\* a longsword, a weapon with an empty ability map and a tuple of four
\* elements, ranged entries, grapple, and skills in and outside the
\* strength skill set
WholeSheets ==
  { Map(<<Pair("name", Str(<<"G", "i", "m", "l", "i">>)),
          Pair("character", Map(<<
            Pair("abilities", Map(<<
                Pair("strength", Ability3(score, "str", 2,
                                          <<Pair("base", Num(16)), Pair("belt", Num(2))>>)),
                Pair("dexterity", Ability3(15, "dex", 2, <<Pair("base", Num(15))>>))>>)),
            Pair("movement", Map(<<Pair("speed", Num(30))>> \o StaleCapacity)),
            Pair("combat", Map(<<
                Pair("saves", SheetSaves),
                Pair("attack", Map(<<
                    Pair("melee", Map(<<
                        Pair("_", GenericMelee),
                        Pair("longsword", Longsword),
                        Pair("whip", Weapon(1, <<"1", "d", "3">> \o Slash,
                                            <<Pair("_", Num(1))>>, <<>>)),
                        Pair("fist", Arr(<<Num(9), Str(<<"1", "d", "3", "+", "2">>),
                                           Str(<<"x", "2">>), Map(<<Pair("_", Num(9))>>)>>))>>)),
                    Pair("ranged", Map(<<Pair("_", GenericRanged),
                                         Pair("shortbow", Shortbow)>>)),
                    Pair("grapple", Stat(3, <<Pair("bab", Num(1)), Pair("str", Num(2))>>))>>))>>)),
            Pair("skills", Map(<<
                Pair("climb", Stat(3, <<Pair("str", Num(2)), Pair("acp", Num(0 - 3)),
                                        Pair("ranks", Num(4))>>)),
                Pair("jump", Stat(4, <<Pair("ranks", Num(4))>>)),
                Pair("spot", Stat(7, <<Pair("wis", Num(1)), Pair("ranks", Num(2))>>)),
                Pair("hide", Stat(0 - 7, <<Pair("dex", Num(0 - 4)), Pair("acp", Num(0 - 3)),
                                          Pair("ranks", Num(2))>>))>>))>>))>>) :
      score \in {0, 18} }

InputDocuments ==
  StructureDocuments \cup SweepDocuments \cup WeaponDocuments \cup SheetDocuments
    \cup BagDocuments \cup NoteDocuments \cup InventoryDocuments \cup WholeSheets
    \cup InertDocuments

(***************************************************************************)
(* The state machine: recompute is called on the input text and then on    *)
(* the text it returned.                                                   *)
(***************************************************************************)
Call(text, tree, r) ==
  [in |-> text, tree |-> tree, status |-> r.status, out |-> r.text,
   data |-> r.data, changed |-> r.changed,
   flow |-> IF r.status = "ok" /\ r.changed THEN setSelectiveFlowStyle(r.data, <<>>) ELSE {}]

Run(text) ==
  Only({Call(text, tree, r) : tree \in {parseYAML(text)}, r \in {updateCalculatedFields(text)}})

\* the texts the calls start from: every document behind a document-start
\* line, some without one, a blank text and a text the parser rejects
InputTexts ==
  { GivenText(d) : d \in InputDocuments }
    \cup { UnmarkedText(d) : d \in SweepDocuments \cup InertDocuments }
    \cup { BlankText, MalformedText }

Init ==
  /\ input \in InputTexts
  /\ runs = <<>>
  /\ validated = <<>>

Recompute ==
  /\ Len(runs) < MaxCalls
  /\ Len(runs) > 0 => runs[Len(runs)].status = "ok"
  /\ runs' = Append(runs, Run(IF Len(runs) = 0 THEN input ELSE runs[Len(runs)].out))
  /\ UNCHANGED <<input, validated>>

\* validateBeefBrainData is called on the input text
Validate ==
  /\ validated = <<>>
  /\ validated' = <<validateBeefBrainData(input)>>
  /\ UNCHANGED <<input, runs>>

Next == Recompute \/ Validate

Spec == Init /\ [][Next]_vars

(***************************************************************************)
(* Properties.  runs[i].tree is the document call i parsed, runs[i].data   *)
(* the document as the pass left it, runs[i].out the text returned.        *)
(***************************************************************************)
\* the calls that returned a text
Returned == { i \in 1..Len(runs) : runs[i].status = "ok" }

Abilities(tree) == Get(Get(tree, "character"), "abilities")

\* the calls that ran the pass and returned
Passed == { i \in Returned : Truthy(Abilities(runs[i].tree)) }

\* floor((score - 10) / 2) = m, stated without a division
IsFloorModifier(m, score) == 2 * m <= score - 10 /\ score - 10 <= 2 * m + 1

\* the sum of the values of a mapping of numbers
RECURSIVE SumPairs(_)
SumPairs(pairs) ==
  IF Len(pairs) = 0 THEN 0 ELSE Head(pairs).v.v + SumPairs(Tail(pairs))

\* the entry is a tuple with a numeric score
IsScored(entry) == IsArray(entry) /\ Idx(entry, 0).t = "num"

\* the entry carries a component breakdown with a numeric base
HasBase(entry) ==
  Idx(entry, 2).t = "map" /\ Get(Idx(entry, 2), "base").t = "num"

\* the breakdown is one of named numeric adjustments
HasComponents(entry) ==
  HasBase(entry) /\ \A j \in 1..Len(Idx(entry, 2).v) : Idx(entry, 2).v[j].v.t = "num"

\* the score ability resolution gives an entry of the parsed document
ResolvedScore(entry) ==
  IF HasComponents(entry) THEN SumPairs(Idx(entry, 2).v) ELSE Idx(entry, 0).v

\* the strength score and modifier of a document after its pass
ScoreOf(data) == Idx(Strength(data), 0).v
ModifierOf(data) == (ScoreOf(data) - 10) \div 2

\* the entry [total, contributions] holds the modifier under str and the sum
\* of its contributions as total
IsUpdated(entry, modifier) ==
  /\ Get(Idx(entry, 1), "str") = Num(modifier)
  /\ Idx(entry, 0) = Num(SumPairs(Idx(entry, 1).v))

\* C1: recompute is idempotent: whenever a call on a document that parses
\* returns, a call on the text it returned returns too, and the text of the
\* second call parses to the document the text of the first call parses to.
C1_Idempotence ==
  \A i \in 2..Len(runs) :
    (runs[i - 1].status = "ok") =>
      /\ runs[i].status = "ok"
      /\ parseYAML(runs[i].out) = parseYAML(runs[i - 1].out)

\* C2: after a pass every ability tuple with a numeric score and a modifier
\* bag holding a key has bag[key] = floor((score - 10) / 2) of the score as
\* it stands after the pass.
C2_ModifierIsFloor ==
  \A i \in Passed :
    \A k \in 1..Len(Abilities(runs[i].data).v) :
      LET entry == Abilities(runs[i].data).v[k].v
          bag == Idx(entry, 1)
      IN (IsScored(entry) /\ bag.t = "map" /\ Len(bag.v) > 0) =>
           /\ bag.v[1].v.t = "num"
           /\ IsFloorModifier(bag.v[1].v.v, Idx(entry, 0).v)

\* C2 happens: a pass rewrote the modifier of an odd score below 10
C2_Witness ==
  \E i \in Passed :
    /\ IsScored(Strength(runs[i].data))
    /\ ScoreOf(runs[i].data) < 10 /\ ScoreOf(runs[i].data) % 2 = 1
    /\ GetIn(runs[i].data, <<"character", "abilities", "strength", 1, "str">>)
         = Num(ModifierOf(runs[i].data))
    /\ GetIn(runs[i].tree, <<"character", "abilities", "strength", 1, "str">>)
         # Num(ModifierOf(runs[i].data))

\* C3: an ability tuple with a component breakdown holding a numeric base and
\* numeric adjustments has the sum of its components as score after the pass,
\* whatever score it held;
\* a tuple without a breakdown keeps the score it was given.
C3_ComponentSum ==
  \A i \in Passed :
    \A k \in 1..Len(Abilities(runs[i].tree).v) :
      LET before == Abilities(runs[i].tree).v[k].v
          after == Abilities(runs[i].data).v[k].v
      IN IsScored(before) =>
           /\ HasComponents(before) =>
                Idx(after, 0) = Num(SumPairs(Idx(before, 2).v))
           /\ Idx(before, 2).t = "undef" => Idx(after, 0) = Idx(before, 0)

\* C3 happens: a pass replaced a score that disagreed with its components
C3_Witness ==
  \E i \in Passed :
    /\ IsScored(Strength(runs[i].tree)) /\ HasComponents(Strength(runs[i].tree))
    /\ Idx(Strength(runs[i].tree), 0).v # ResolvedScore(Strength(runs[i].tree))
    /\ ScoreOf(runs[i].data) = ResolvedScore(Strength(runs[i].tree))

\* C4: every value a pass propagates is derived from the strength score as
\* ability resolution leaves it, not from the score the document held: the
\* heavy load, the str contribution of the skills keyed str and the str
\* contribution of the generic melee entry (for a breakdown of numeric
\* adjustments, the only kind the resolved score is defined for).
C4_AbilitiesBeforePropagation ==
  \A i \in Passed :
    LET before == Strength(runs[i].tree)
        data == runs[i].data
        score == ResolvedScore(before)
        skills == GetIn(runs[i].tree, SkillsPath)
    IN (IsScored(before) /\ (HasBase(before) => HasComponents(before))) =>
         /\ GetIn(runs[i].tree, CapacityPath).t = "map" =>
              GetIn(data, CapacityPath \o <<"heavy">>) = Lbs(HeavyLoad(score))
         /\ skills.t = "map" =>
              \A k \in 1..Len(skills.v) :
                HasKey(Idx(skills.v[k].v, 1), "str") =>
                  GetIn(data, SkillsPath \o <<skills.v[k].k, 1, "str">>)
                    = Num((score - 10) \div 2)
         /\ IsArray(GetIn(runs[i].tree, MeleePath \o <<"_">>)) =>
              GetIn(data, MeleePath \o <<"_", 1, "str">>) = Num((score - 10) \div 2)

\* C4 happens: the document held a score other than the sum of its
\* components, and the heavy load and a skill follow the resolved score
C4_Witness ==
  \E i \in Passed :
    /\ IsScored(Strength(runs[i].tree)) /\ HasComponents(Strength(runs[i].tree))
    /\ (Idx(Strength(runs[i].tree), 0).v - 10) \div 2
         # (ResolvedScore(Strength(runs[i].tree)) - 10) \div 2
    /\ HeavyLoad(Idx(Strength(runs[i].tree), 0).v)
         # HeavyLoad(ResolvedScore(Strength(runs[i].tree)))
    /\ GetIn(runs[i].data, CapacityPath \o <<"heavy">>)
         = Lbs(HeavyLoad(ResolvedScore(Strength(runs[i].tree))))
    /\ GetIn(runs[i].data, SkillsPath \o <<"climb", 1, "str">>)
         = Num((ResolvedScore(Strength(runs[i].tree)) - 10) \div 2)

\* C5: after a pass on a document with a strength score and skills, every
\* skill [total, contributions] whose contributions hold str has the current
\* strength modifier under str and the sum of its contributions as total.
C5_StrengthToSkills ==
  \A i \in Passed :
    LET data == runs[i].data
        skills == GetIn(data, SkillsPath)
    IN (IsScored(Strength(data)) /\ skills.t = "map") =>
         \A k \in 1..Len(skills.v) :
           (IsArray(skills.v[k].v) /\ HasKey(Idx(skills.v[k].v, 1), "str")) =>
             IsUpdated(skills.v[k].v, ModifierOf(data))

\* C5 happens: a skill keyed str held another modifier and another total
C5_Witness ==
  \E i \in Passed :
    LET before == GetIn(runs[i].tree, SkillsPath \o <<"climb">>)
        after == GetIn(runs[i].data, SkillsPath \o <<"climb">>)
    IN /\ IsScored(Strength(runs[i].data))
       /\ IsArray(before) /\ HasKey(Idx(before, 1), "str")
       /\ Get(Idx(before, 1), "str") # Num(ModifierOf(runs[i].data))
       /\ Idx(before, 0) # Idx(after, 0)
       /\ IsUpdated(after, ModifierOf(runs[i].data))
\* C6: after a pass on a document with a strength score and combat.attack,
\* the generic melee entry and the grapple entry each hold the current
\* strength modifier under str and the sum of their contributions as total.
C6_StrengthToAttack ==
  \A i \in Passed :
    LET data == runs[i].data
        generic == GetIn(data, MeleePath \o <<"_">>)
        grapple == GetIn(data, GrapplePath)
    IN (IsScored(Strength(data))
        /\ Truthy(GetIn(data, <<"character", "combat", "attack">>))) =>
         /\ (IsArray(generic) /\ Idx(generic, 1).t = "map") =>
              IsUpdated(generic, ModifierOf(data))
         /\ (IsArray(grapple) /\ Idx(grapple, 1).t = "map") =>
              IsUpdated(grapple, ModifierOf(data))

\* C6 happens: both entries held another modifier and another total
C6_Witness ==
  \E i \in Passed :
    LET generic == GetIn(runs[i].tree, MeleePath \o <<"_">>)
        grapple == GetIn(runs[i].tree, GrapplePath)
    IN /\ IsScored(Strength(runs[i].data))
       /\ IsArray(generic) /\ IsArray(grapple)
       /\ ~IsUpdated(generic, ModifierOf(runs[i].data))
       /\ ~IsUpdated(grapple, ModifierOf(runs[i].data))
       /\ IsUpdated(GetIn(runs[i].data, MeleePath \o <<"_">>), ModifierOf(runs[i].data))
       /\ IsUpdated(GetIn(runs[i].data, GrapplePath), ModifierOf(runs[i].data))

\* the named weapon entries of a document: the keys of melee other than "_"
\* whose value is a tuple of at least five elements with a bonus breakdown
\* and an ability modifier map
Weapons(data) ==
  LET melee == GetIn(data, MeleePath)
  IN IF melee.t # "map" THEN {}
     ELSE { melee.v[k].k : k \in { j \in 1..Len(melee.v) :
              /\ melee.v[j].k # "_"
              /\ IsArray(melee.v[j].v) /\ Len(melee.v[j].v.v) >= 5
              /\ Idx(melee.v[j].v, 3).t = "map"
              /\ Idx(melee.v[j].v, 4).t = "map" } }

\* the bonus breakdown of the weapon mirrors the generic melee total and the
\* attack bonus is the sum of the breakdown
IsMirrored(data, weapon) ==
  LET generic == GetIn(data, MeleePath \o <<"_">>)
  IN /\ (IsArray(generic) /\ Idx(generic, 0).t = "num") =>
          Get(Idx(weapon, 3), "_") = Idx(generic, 0)
     /\ Idx(weapon, 0) = Num(SumPairs(Idx(weapon, 3).v))

\* C7 as stated: after a pass every named weapon has the generic melee total
\* under bonusBreakdown._, the current strength modifier under
\* abilityModifierMap.str and the sum of the bonus breakdown as attack bonus.
C7_NamedWeapons ==
  \A i \in Passed :
    IsScored(Strength(runs[i].data)) =>
      \A name \in Weapons(runs[i].data) :
        LET weapon == GetIn(runs[i].data, MeleePath \o <<name>>)
        IN /\ IsMirrored(runs[i].data, weapon)
           /\ Get(Idx(weapon, 4), "str") = Num(ModifierOf(runs[i].data))

\* C7 amended: as C7, with abilityModifierMap.str equal to the current
\* strength modifier whenever that map already holds a str key; a map
\* without str is left without it.
C7_NamedWeaponsKeyed ==
  \A i \in Passed :
    IsScored(Strength(runs[i].data)) =>
      \A name \in Weapons(runs[i].data) :
        LET weapon == GetIn(runs[i].data, MeleePath \o <<name>>)
            before == GetIn(runs[i].tree, MeleePath \o <<name, 4>>)
        IN /\ IsMirrored(runs[i].data, weapon)
           /\ IF HasKey(before, "str")
              THEN Get(Idx(weapon, 4), "str") = Num(ModifierOf(runs[i].data))
              ELSE Idx(weapon, 4) = before

\* C7 happens: a weapon whose breakdown, modifier map and attack bonus were
\* stale, next to a generic melee entry whose total the pass changed
C7_Witness ==
  \E i \in Passed :
    \E name \in Weapons(runs[i].data) :
      LET before == GetIn(runs[i].tree, MeleePath \o <<name>>)
          after == GetIn(runs[i].data, MeleePath \o <<name>>)
      IN /\ IsScored(Strength(runs[i].data))
         /\ GetIn(runs[i].tree, MeleePath \o <<"_", 0>>)
              # GetIn(runs[i].data, MeleePath \o <<"_", 0>>)
         /\ Get(Idx(before, 3), "_") # Get(Idx(after, 3), "_")
         /\ Get(Idx(before, 4), "str") # Get(Idx(after, 4), "str")
         /\ Idx(before, 0) # Idx(after, 0)
         /\ IsMirrored(runs[i].data, after)
         /\ Get(Idx(after, 4), "str") = Num(ModifierOf(runs[i].data))

\* the first "+" of a damage string that starts a term +<n>, n an integer
\* with an optional sign; 0 when the string holds no such term
TermFrom(cs) ==
  LET starts == { j \in 1..Len(cs) :
                    /\ cs[j] = "+" /\ j + 1 <= Len(cs)
                    /\ \/ IsDigit(cs[j + 1])
                       \/ cs[j + 1] = "-" /\ j + 2 <= Len(cs) /\ IsDigit(cs[j + 2]) }
  IN IF starts = {} THEN 0 ELSE CHOOSE j \in starts : \A l \in starts : j <= l

\* the damage string with its term set to the modifier, the rest unchanged
WithTerm(cs, modifier) ==
  LET from == TermFrom(cs)
      to == DigitsEnd(cs, IF cs[from + 1] = "-" THEN from + 1 ELSE from)
  IN SubSeq(cs, 1, from) \o IntChars(modifier) \o SubSeq(cs, to + 1, Len(cs))

\* C8 as stated: after a pass the +<n> term of the damage string of every
\* named weapon is the current strength modifier, whatever dice expression
\* stands in front of it and whatever the term held, and the rest of the
\* string is unchanged.
C8_DamageTerm ==
  \A i \in Passed :
    IsScored(Strength(runs[i].data)) =>
      \A name \in Weapons(runs[i].tree) :
        LET before == GetIn(runs[i].tree, MeleePath \o <<name, 1>>)
            after == GetIn(runs[i].data, MeleePath \o <<name, 1>>)
        IN (before.t = "str" /\ TermFrom(before.v) > 0) =>
             after = Str(WithTerm(before.v, ModifierOf(runs[i].data)))

\* the five thresholds of a heavy load, as the strings of the table
IsCapacity(cap, heavy) ==
  /\ Get(cap, "light") = Str(IntChars(heavy \div 3) \o <<" ", "l", "b", "s">>)
  /\ Get(cap, "medium") = Str(IntChars((2 * heavy) \div 3) \o <<" ", "l", "b", "s">>)
  /\ Get(cap, "heavy") = Str(IntChars(heavy) \o <<" ", "l", "b", "s">>)
  /\ Get(cap, "lift") = Str(IntChars(2 * heavy) \o <<" ", "l", "b", "s">>)
  /\ Get(cap, "drag") = Str(IntChars(5 * heavy) \o <<" ", "l", "b", "s">>)

\* the pass of call i had a strength score and a capacity table to write
HasCapacity(i) ==
  /\ i \in Passed
  /\ IsScored(Strength(runs[i].data))
  /\ GetIn(runs[i].tree, CapacityPath).t = "map"

\* C9: for a strength score from 1 to 29 the pass takes heavy from the table
\* of 29 entries and writes light, medium, heavy, lift and drag as
\* "<integer> lbs"; all five keys are present afterwards.
C9_CapacityTable ==
  \A i \in 1..Len(runs) :
    (HasCapacity(i) /\ ScoreOf(runs[i].data) \in 1..29) =>
      /\ IsCapacity(GetIn(runs[i].data, CapacityPath), heavyTable[ScoreOf(runs[i].data)])
      /\ ScoreOf(runs[i].data) = 18 =>
           GetIn(runs[i].data, CapacityPath \o <<"heavy">>)
             = Str(<<"3", "0", "0", " ", "l", "b", "s">>)
      /\ ScoreOf(runs[i].data) = 10 =>
           GetIn(runs[i].data, CapacityPath \o <<"light">>)
             = Str(<<"3", "3", " ", "l", "b", "s">>)

\* C9 happens: an empty capacity table was filled for strength 18
C9_Witness ==
  \E i \in 1..Len(runs) :
    /\ HasCapacity(i) /\ ScoreOf(runs[i].data) = 18
    /\ Len(GetIn(runs[i].tree, CapacityPath).v) = 0
    /\ Len(GetIn(runs[i].data, CapacityPath).v) = 5
    /\ IsCapacity(GetIn(runs[i].data, CapacityPath), 300)

\* C10: for a strength score s of 30 or more, with k = floor((s - 20) / 10)
\* and r = (s - 20) mod 10, heavy is 400 * 2^k when r = 0 and the
\* interpolation floor(lo + (hi - lo) * r / 10) between lo = 400 * 2^k and
\* hi = 2 * lo otherwise, and the heavy load of s + 10 is twice that of s.
C10_CapacityDoubling ==
  \A i \in 1..Len(runs) :
    (HasCapacity(i) /\ ScoreOf(runs[i].data) >= 30) =>
      LET s == ScoreOf(runs[i].data)
          r == (s - 20) % 10
          lo == 400 * 2 ^ ((s - 20) \div 10)
          hi == 2 * lo
          heavy == IF r = 0 THEN lo ELSE lo + ((hi - lo) * r) \div 10
      IN /\ IsCapacity(GetIn(runs[i].data, CapacityPath), heavy)
         /\ 10 * heavy = 10 * lo + (hi - lo) * r
         /\ HeavyLoad(s + 10) = 2 * heavy

\* C10 happens: strength 35, halfway between 800 and 1600
C10_Witness ==
  \E i \in 1..Len(runs) :
    /\ HasCapacity(i) /\ ScoreOf(runs[i].data) = 35
    /\ GetIn(runs[i].tree, CapacityPath \o <<"heavy">>)
         # GetIn(runs[i].data, CapacityPath \o <<"heavy">>)
    /\ GetIn(runs[i].data, CapacityPath \o <<"heavy">>)
         = Str(<<"1", "2", "0", "0", " ", "l", "b", "s">>)

(***************************************************************************)
(* Derived stat entries: [total, contributions] tuples outside the         *)
(* abilities.                                                              *)
(***************************************************************************)
Character(data) == Get(data, "character")
Combat(data) == Get(Character(data), "combat")
Attack(data) == Get(Combat(data), "attack")

\* the values of a mapping, as a set
Members(node) == IF node.t = "map" THEN { node.v[i].v : i \in 1..Len(node.v) } ELSE {}

\* a tuple with a numeric total and a mapping of numeric contributions
IsStat(entry) ==
  /\ IsArray(entry) /\ Len(entry.v) >= 2
  /\ Idx(entry, 0).t = "num" /\ Idx(entry, 1).t = "map"
  /\ \A i \in 1..Len(Idx(entry, 1).v) : Idx(entry, 1).v[i].v.t = "num"

\* total == sum of the contribution values
IsSummed(entry) == Idx(entry, 0) = Num(SumPairs(Idx(entry, 1).v))

\* the entry holds the modifier under the key, and its total is the sum
IsKeyed(entry, key, modifier) ==
  Get(Idx(entry, 1), key) = Num(modifier) /\ IsSummed(entry)

\* the ability has a numeric score, and the modifier of that score
HasScore(data, ability) == IsScored(Get(Abilities(data), ability))
ModifierAt(data, ability) == (Idx(Get(Abilities(data), ability), 0).v - 10) \div 2

\* initiative, the saves, the defense entries and the skills
StatTargets(data) ==
  { e \in {Get(Combat(data), "initiative")}
           \cup Members(Get(Combat(data), "saves"))
           \cup Members(Get(Combat(data), "defense"))
           \cup Members(Get(Character(data), "skills")) : IsStat(e) }

\* every derived stat entry: the stat targets, the generic melee and ranged
\* entries and grapple
DerivedStats(data) ==
  StatTargets(data)
    \cup { e \in { Get(Get(Attack(data), "melee"), "_"),
                   Get(Get(Attack(data), "ranged"), "_"),
                   Get(Attack(data), "grapple") } : IsStat(e) }

\* C11 as stated: after a pass on a document with a dexterity score,
\* initiative, every save, every defense entry and every skill whose
\* contributions hold a dex key have contributions.dex equal to the
\* dexterity modifier and total equal to the sum of the contributions.
C11_DexterityToStats ==
  \A i \in Passed :
    HasScore(runs[i].data, "dexterity") =>
      \A e \in StatTargets(runs[i].data) :
        HasKey(Idx(e, 1), "dex") => IsKeyed(e, "dex", ModifierAt(runs[i].data, "dexterity"))

\* the named ranged weapons of a document
RangedWeapons(data) ==
  { w \in Members(Get(Attack(data), "ranged")) :
      /\ IsArray(w) /\ Len(w.v) >= 5 /\ Idx(w, 1).t = "str" /\ Idx(w, 3).t = "map" }

\* C12 as stated: after a pass on a document with a dexterity score and a
\* generic ranged entry, that entry holds the dexterity modifier under dex
\* and the sum as total, and every named ranged weapon has the generic ranged
\* total under bonusBreakdown._ and the sum of its breakdown as attack bonus.
C12_DexterityToRanged ==
  \A i \in Passed :
    LET generic == Get(Get(Attack(runs[i].data), "ranged"), "_")
    IN (HasScore(runs[i].data, "dexterity") /\ IsStat(generic)) =>
         /\ IsKeyed(generic, "dex", ModifierAt(runs[i].data, "dexterity"))
         /\ \A w \in RangedWeapons(runs[i].data) :
              /\ Get(Idx(w, 3), "_") = Idx(generic, 0)
              /\ Idx(w, 0) = Num(SumPairs(Idx(w, 3).v))

\* C13 as stated: after a pass every derived stat entry of the document,
\* touched by a rule or not, has total equal to the sum of its contributions.
C13_TotalIsSum ==
  \A i \in Passed : \A e \in DerivedStats(runs[i].data) : IsSummed(e)

\* the contribution key of each ability
Abbreviation ==
  << <<"strength", "str">>, <<"dexterity", "dex">>, <<"constitution", "con">>,
     <<"intelligence", "int">>, <<"wisdom", "wis">>, <<"charisma", "cha">> >>

\* C14 as stated: after a pass, for each ability with a score, every
\* contribution of a derived stat entry keyed by the ability's abbreviation
\* equals the ability's modifier.
C14_ContributionIsModifier ==
  \A i \in Passed : \A a \in 1..Len(Abbreviation) :
    HasScore(runs[i].data, Abbreviation[a][1]) =>
      \A e \in DerivedStats(runs[i].data) :
        HasKey(Idx(e, 1), Abbreviation[a][2]) =>
          Get(Idx(e, 1), Abbreviation[a][2])
            = Num(ModifierAt(runs[i].data, Abbreviation[a][1]))

\* C15 as stated: the change flag is raised only when a value differs from
\* its prior value, so a pass that leaves the document as it was parsed
\* records no change and returns the input text.
C15_ChangeTracking ==
  \A i \in Passed :
    runs[i].data = runs[i].tree => (~runs[i].changed /\ runs[i].out = runs[i].in)

\* C16 as stated: a call on a text that parses to a document without
\* character.abilities, the empty document included, returns that very text
\* and raises nothing.
C16_InertInput ==
  \A i \in 1..Len(runs) :
    (runs[i].tree.t # "error" /\ ~Truthy(Abilities(runs[i].tree))) =>
      /\ runs[i].status = "ok"
      /\ ~runs[i].changed
      /\ runs[i].out = runs[i].in

\* C17: validate returns a boolean, true on a blank text and on every text
\* the parser accepts and false on a text the parser rejects; recompute on a
\* text the parser rejects raises the parse error and returns nothing.
C17_ParseFailure ==
  /\ validated # <<>> =>
        /\ validated[1] \in BOOLEAN
        /\ validated[1] = (input # MalformedText)
  /\ \A i \in 1..Len(runs) :
        runs[i].tree = ParseError => (runs[i].status = "ParseError" /\ i = Len(runs))

\* C17 happens: a rejected text was validated and recomputed
C17_Witness ==
  /\ input = MalformedText
  /\ validated = <<FALSE>>
  /\ Len(runs) = 1 /\ runs[1].status = "ParseError"

\* C18 as stated: a call on a text that parses returns a text and raises
\* nothing, whichever structures are absent.
C18_AbsencesAreNoErrors ==
  \A i \in 1..Len(runs) : runs[i].tree.t # "error" => runs[i].status = "ok"

\* C19: a call that records a change returns a rendered text that begins
\* with the document-start line; a call that records none returns its input
\* text, with or without that line.
C19_DocumentStart ==
  \A i \in Returned :
    /\ runs[i].changed => (runs[i].out.kind = "rendered" /\ runs[i].out.marker)
    /\ ~runs[i].changed => runs[i].out = runs[i].in

\* C19 happens: a text without the line was changed and returned with it,
\* and the second call returned that text as it was
C19_Witness ==
  /\ Len(runs) = 2
  /\ ~runs[1].in.marker /\ runs[1].changed /\ runs[1].out.marker
  /\ runs[2].status = "ok" /\ ~runs[2].changed /\ runs[2].out = runs[1].out

\* C21: after a pass the modifier bag of every ability whose bag was a
\* mapping with one key is a mapping with exactly that one key, whatever the
\* name of the key.
C21_BagKeyPreserved ==
  \A i \in Passed :
    \A k \in 1..Len(Abilities(runs[i].tree).v) :
      LET before == Idx(Abilities(runs[i].tree).v[k].v, 1)
          after == Idx(Abilities(runs[i].data).v[k].v, 1)
      IN (before.t = "map" /\ Len(before.v) = 1) =>
           /\ after.t = "map" /\ Len(after.v) = 1
           /\ after.v[1].k = before.v[1].k

\* C21 happens: the strength bag was keyed dex, and the pass rewrote its
\* value under that key
C21_Witness ==
  \E i \in Passed :
    /\ Idx(Strength(runs[i].tree), 1) = Map(<<Pair("dex", Num(0))>>)
    /\ Idx(Strength(runs[i].data), 1) = Map(<<Pair("dex", Num(4))>>)

\* C22: after a pass on a document with a strength score, every skill named
\* climb, jump or swim that is a [total, contributions] tuple holds the
\* strength modifier under str, whether or not it held a str key before, and
\* the sum of its contributions as total.
C22_StrengthSkillSet ==
  \A i \in Passed :
    LET skills == GetIn(runs[i].tree, SkillsPath)
    IN (IsScored(Strength(runs[i].data)) /\ skills.t = "map") =>
         \A k \in 1..Len(skills.v) :
           (skills.v[k].k \in {"climb", "jump", "swim"} /\ IsStat(skills.v[k].v)) =>
             IsUpdated(GetIn(runs[i].data, SkillsPath \o <<skills.v[k].k>>),
                       ModifierOf(runs[i].data))

\* C22 happens: jump held ranks only, and the pass added the str contribution
C22_Witness ==
  \E i \in Passed :
    /\ GetIn(runs[i].tree, SkillsPath \o <<"jump">>) = Stat(4, <<Pair("ranks", Num(4))>>)
    /\ GetIn(runs[i].data, SkillsPath \o <<"jump">>)
         = Stat(8, <<Pair("ranks", Num(4)), Pair("str", Num(4))>>)

\* the keys of the contribution map of an entry
KeysOf(entry) == EntryKeys(Idx(entry, 1))

\* the skills outside the strength skill set whose contributions hold no str
UnkeyedSkills(tree) ==
  LET skills == GetIn(tree, SkillsPath)
  IN IF skills.t # "map" THEN {}
     ELSE { skills.v[k].k : k \in { j \in 1..Len(skills.v) :
              /\ skills.v[j].k \notin {"climb", "jump", "swim"}
              /\ IsStat(skills.v[j].v) /\ ~HasKey(Idx(skills.v[j].v, 1), "str") } }

\* C23 as stated: a generic melee entry, a grapple entry or a skill outside
\* the strength skill set whose contributions hold no str key keeps the key
\* set it had before the pass.
C23_NoKeyIntroduced ==
  \A i \in Passed :
    /\ \A name \in UnkeyedSkills(runs[i].tree) :
         KeysOf(GetIn(runs[i].data, SkillsPath \o <<name>>))
           = KeysOf(GetIn(runs[i].tree, SkillsPath \o <<name>>))
    /\ \A path \in {MeleePath \o <<"_">>, GrapplePath} :
         (IsStat(GetIn(runs[i].tree, path)) /\ ~HasKey(Idx(GetIn(runs[i].tree, path), 1), "str")) =>
           KeysOf(GetIn(runs[i].data, path)) = KeysOf(GetIn(runs[i].tree, path))

\* C23: a skill outside the strength skill set whose contributions hold no
\* str key keeps the key set, the values and the total it had before the
\* pass, and so does the ability modifier map of a named weapon that holds no
\* str key.
C23_NoKeyIntroducedInSkills ==
  \A i \in Passed :
    /\ \A name \in UnkeyedSkills(runs[i].tree) :
         GetIn(runs[i].data, SkillsPath \o <<name>>)
           = GetIn(runs[i].tree, SkillsPath \o <<name>>)
    /\ \A name \in Weapons(runs[i].tree) :
         ~HasKey(GetIn(runs[i].tree, MeleePath \o <<name, 4>>), "str") =>
           GetIn(runs[i].data, MeleePath \o <<name, 4>>)
             = GetIn(runs[i].tree, MeleePath \o <<name, 4>>)

\* C23 happens: in one pass bash, keyed str, was rewritten and spot, keyed
\* wis, was left as it was
C23_Witness ==
  \E i \in Passed :
    /\ "spot" \in UnkeyedSkills(runs[i].tree)
    /\ GetIn(runs[i].data, SkillsPath \o <<"spot">>) = GetIn(runs[i].tree, SkillsPath \o <<"spot">>)
    /\ GetIn(runs[i].tree, SkillsPath \o <<"bash">>) = Stat(2, <<Pair("str", Num(2))>>)
    /\ GetIn(runs[i].data, SkillsPath \o <<"bash">>) = Stat(4, <<Pair("str", Num(4))>>)

\* the sum of the numeric values of a list of pairs
RECURSIVE NumericSum(_)
NumericSum(pairs) ==
  IF pairs = <<>> THEN 0
  ELSE (IF Head(pairs).v.t = "num" THEN Head(pairs).v.v ELSE 0) + NumericSum(Tail(pairs))

\* C24: an ability tuple whose component breakdown holds a numeric base has,
\* after the pass, the sum of the numeric components as score, a number,
\* whatever other values the breakdown holds, and the breakdown it had.
C24_NumericOnlySum ==
  \A i \in Passed :
    \A k \in 1..Len(Abilities(runs[i].tree).v) :
      LET before == Abilities(runs[i].tree).v[k].v
          after == Abilities(runs[i].data).v[k].v
      IN HasBase(before) =>
           /\ Idx(after, 0) = Num(NumericSum(Idx(before, 2).v))
           /\ Idx(after, 2) = Idx(before, 2)

\* the tokens of a flow-style node in which a mapping of one pair has no
\* braces exactly when it is an element of a sequence
RECURSIVE BareInArrays(_, _)
RECURSIVE BareItems(_, _, _)
BareInArrays(node, inArray) ==
  IF node.t = "map" /\ Len(node.v) = 1 /\ inArray
  THEN BareItems(node, 1, 1)
  ELSE IF node.t = "map"
  THEN <<Punct("{")>> \o BareItems(node, 1, Len(node.v)) \o <<Punct("}")>>
  ELSE IF node.t = "seq"
  THEN <<Punct("[")>> \o BareItems(node, 1, Len(node.v)) \o <<Punct("]")>>
  ELSE <<Tok("scalar", node)>>
BareItems(node, lo, hi) ==
  IF lo > hi THEN <<>>
  ELSE IF lo < hi
  THEN BareItems(node, lo, (lo + hi) \div 2) \o BareItems(node, (lo + hi) \div 2 + 1, hi)
  ELSE (IF node.t = "map"
        THEN <<Tok("key", Str(<<node.v[lo].k>>)), Punct(":")>>
               \o BareInArrays(node.v[lo].v, FALSE)
        ELSE BareInArrays(node.v[lo], TRUE))
       \o (IF lo < Len(node.v) THEN <<Punct(",")>> ELSE <<>>)

\* the rendered text whose flow-style lines are those of BareInArrays
RECURSIVE RenderBareInArrays(_, _)
RenderBareInArrays(node, path) ==
  IF node.t \in {"map", "seq"} /\ (FlowFlagged(node, path) \/ Len(node.v) = 0)
  THEN Only({FlowLeaf(Listed(toks)) : toks \in {BareInArrays(node, FALSE)}})
  ELSE IF node.t = "map"
  THEN Map(Listed([i \in 1..Len(node.v) |->
              Pair(node.v[i].k, RenderBareInArrays(node.v[i].v, Append(path, node.v[i].k)))]))
  ELSE IF node.t = "seq"
  THEN Arr(Listed([i \in 1..Len(node.v) |->
              RenderBareInArrays(node.v[i], Append(path, ToString(i - 1)))]))
  ELSE node

\* C25: in the text a call renders, a mapping of one pair is written without
\* braces when it is an element of an inline sequence, and every other
\* inline mapping (of several pairs, the value of a key, nested in another
\* inline mapping) is written with its braces.
C25_BraceStripping ==
  \A i \in Returned :
    runs[i].changed => runs[i].out.body = RenderBareInArrays(runs[i].data, <<>>)

\* the paths of the mappings and sequences of a tree
RECURSIVE CollectionPaths(_, _)
CollectionPaths(node, path) ==
  IF node.t = "seq"
  THEN {path} \cup UNION { CollectionPaths(node.v[i], Append(path, ToString(i - 1))) :
                             i \in 1..Len(node.v) }
  ELSE IF node.t = "map"
  THEN {path} \cup UNION { CollectionPaths(node.v[i].v, Append(path, node.v[i].k)) :
                             i \in 1..Len(node.v) }
  ELSE {}

\* C26: when a call renders a tree, the nodes set to flow style are the
\* mappings and sequences, at any depth and below flow-style nodes too, whose
\* path has as many segments as a pattern of the list, each segment of the
\* pattern being * or the segment of the path; no scalar is among them.
C26_FlowStylePolicy ==
  \A i \in Returned :
    runs[i].changed =>
      runs[i].flow =
        { path \in CollectionPaths(runs[i].data, <<>>) :
            \E p \in 1..Len(flowStylePaths) :
              /\ Len(flowStylePaths[p]) = Len(path)
              /\ \A j \in 1..Len(path) : flowStylePaths[p][j] \in {"*", path[j]} }

\* C26 happens: a rendered tree has a flow-style sequence below a block
\* sequence, a flow-style node below a flow-style node and a block mapping
\* whose path is longer than no pattern
C26_Witness ==
  \E i \in Returned :
    /\ runs[i].changed
    /\ <<"character", "levels", "0">> \in runs[i].flow
    /\ <<"character", "inventory", "_on">> \in runs[i].flow
    /\ <<"character", "inventory", "_on", "belt">> \in runs[i].flow
    /\ <<"character", "inventory", "pack", "rope">> \in runs[i].flow
    /\ <<"character", "inventory", "pack">> \in
         CollectionPaths(runs[i].data, <<>>) \ runs[i].flow

Pounds(node) ==
  IF /\ node.t = "str" /\ Len(node.v) > 4
     /\ SubSeq(node.v, Len(node.v) - 3, Len(node.v)) = <<" ", "l", "b", "s">>
     /\ AllDigits(SubSeq(node.v, 1, Len(node.v) - 4))
  THEN DigitsValue(SubSeq(node.v, 1, Len(node.v) - 4), 0)
  ELSE 0 - 1

\* C28: the five capacity values a pass writes for a numeric strength score
\* are non-negative integers with light <= medium <= heavy <= lift <= drag,
\* lift = 2 * heavy and drag = 5 * heavy, and heavy is 10 for a score below 1.
C28_OrderedThresholds ==
  \A i \in 1..Len(runs) :
    HasCapacity(i) =>
      LET cap == GetIn(runs[i].data, CapacityPath)
          light == Pounds(Get(cap, "light"))
          medium == Pounds(Get(cap, "medium"))
          heavy == Pounds(Get(cap, "heavy"))
          lift == Pounds(Get(cap, "lift"))
          drag == Pounds(Get(cap, "drag"))
      IN /\ 0 <= light /\ light <= medium /\ medium <= heavy
         /\ heavy <= lift /\ lift <= drag
         /\ lift = 2 * heavy /\ drag = 5 * heavy
         /\ ScoreOf(runs[i].data) < 1 => heavy = 10

\* C28 happens: a pass replaced a stale capacity table for a negative score
C28_Witness ==
  \E i \in 1..Len(runs) :
    /\ HasCapacity(i) /\ ScoreOf(runs[i].data) < 0
    /\ GetIn(runs[i].tree, CapacityPath) = Map(Capacity(<<66, 133, 200, 400, 1000>>))
    /\ GetIn(runs[i].data, CapacityPath) = Map(Capacity(<<3, 6, 10, 20, 50>>))

\* C29: the text of a call that records a change parses to the tree the pass
\* left, whatever the shape of the document, is accepted by validate, and a
\* call on it returns.
C29_RoundTrip ==
  \A i \in Returned :
    runs[i].changed =>
      /\ parseYAML(runs[i].out) = runs[i].data
      /\ validateBeefBrainData(runs[i].out)
      /\ i < Len(runs) => runs[i + 1].status = "ok"

(***************************************************************************)
(* The frame of a pass: a tree with the fields a pass may write blanked.   *)
(***************************************************************************)
Blank == Str(<<"?">>)

\* a mapping without the pairs of the keys
WithoutKeys(node, keys) ==
  IF node.t = "map" THEN Map(SelectSeq(node.v, LAMBDA pair : pair.k \notin keys)) ELSE node

\* an ability tuple without its score and the value of its modifier bag
BlankAbility(entry) ==
  IF ~IsArray(entry) THEN entry
  ELSE Arr(Listed([j \in 1..Len(entry.v) |->
         IF j = 1 THEN Blank
         ELSE IF j = 2 /\ entry.v[j].t = "map" /\ Len(entry.v[j].v) = 1
         THEN Map(<<Pair(entry.v[j].v[1].k, Blank)>>)
         ELSE entry.v[j]]))

\* a [total, contributions] tuple without its total and its str contribution
BlankStat(entry) ==
  IF IsArray(entry) /\ Len(entry.v) >= 2
  THEN Arr(Listed([j \in 1..Len(entry.v) |->
         IF j = 1 THEN Blank
         ELSE IF j = 2 THEN WithoutKeys(entry.v[j], {"str"})
         ELSE entry.v[j]]))
  ELSE entry

\* a weapon tuple of five elements or more without its attack bonus, its
\* damage string, the _ of its bonus breakdown and, when the ability modifier
\* map was keyed str, its str
BlankWeapon(entry, keyed) ==
  IF IsArray(entry) /\ Len(entry.v) >= 5
  THEN Arr(Listed([j \in 1..Len(entry.v) |->
         IF j \in {1, 2} THEN Blank
         ELSE IF j = 4 THEN WithoutKeys(entry.v[j], {"_"})
         ELSE IF j = 5 /\ keyed THEN WithoutKeys(entry.v[j], {"str"})
         ELSE entry.v[j]]))
  ELSE entry

\* the pairs of a mapping, those of the abilities blanked
BlankAbilities(node) ==
  IF node.t = "map"
  THEN Map(Listed([k \in 1..Len(node.v) |-> Pair(node.v[k].k, BlankAbility(node.v[k].v))]))
  ELSE node

\* the melee entries blanked; from is the tree before the pass
BlankMelee(node, from) ==
  IF node.t = "map"
  THEN Map(Listed([k \in 1..Len(node.v) |->
         Pair(node.v[k].k,
              IF node.v[k].k = "_" THEN BlankStat(node.v[k].v)
              ELSE BlankWeapon(node.v[k].v,
                               HasKey(GetIn(from, MeleePath \o <<node.v[k].k, 4>>), "str")))]))
  ELSE node

\* the skills of the strength skill set and those keyed str before the pass
\* blanked
BlankSkills(node, from) ==
  IF node.t = "map"
  THEN Map(Listed([k \in 1..Len(node.v) |->
         Pair(node.v[k].k,
              IF \/ node.v[k].k \in {"climb", "jump", "swim"}
                 \/ HasKey(GetIn(from, SkillsPath \o <<node.v[k].k, 1>>), "str")
              THEN BlankStat(node.v[k].v)
              ELSE node.v[k].v)]))
  ELSE node

\* the node at the path replaced, when there is one
Replaced(tree, path, node) ==
  IF GetIn(tree, path).t = "undef" THEN tree ELSE SetIn(tree, path, node)

\* the tree without the fields a pass on the tree from may write
Frame(tree, from) ==
  IF tree.t # "map" THEN tree ELSE
  Only({Replaced(t4, SkillsPath, BlankSkills(GetIn(t4, SkillsPath), from)) :
    t4 \in {Only({Replaced(t3, GrapplePath, BlankStat(GetIn(t3, GrapplePath))) :
    t3 \in {Only({Replaced(t2, MeleePath, BlankMelee(GetIn(t2, MeleePath), from)) :
    t2 \in {Only({Replaced(t1, CapacityPath,
                           WithoutKeys(GetIn(t1, CapacityPath),
                                       {"light", "medium", "heavy", "lift", "drag"})) :
    t1 \in {Replaced(tree, <<"character", "abilities">>,
                     BlankAbilities(GetIn(tree, <<"character", "abilities">>)))}})}})}})}})

\* C30: a call changes nothing of the tree but ability scores and modifier
\* bag values, the five capacity strings, the total and the str contribution
\* of melee._, grapple and the skills of the strength skill set or keyed
\* str, and index 0, index 1, bonusBreakdown._ and abilityModifierMap.str of
\* the named melee weapons of five elements or more: component breakdowns,
\* other contributions, the other weapon elements, short weapon tuples,
\* ranged weapons, other skills and every other node stay as they were.
C30_FrameOfPass ==
  \A i \in Returned :
    Frame(runs[i].data, runs[i].tree) = Frame(runs[i].tree, runs[i].tree)

\* C30 happens: a pass on a full sheet rewrote the strength score, the
\* capacity, a weapon and a skill, and the dexterity breakdown, the saves,
\* the ranged weapon and the skill keyed wis are as they were
C30_Witness ==
  \E i \in Returned :
    /\ runs[i].changed
    /\ Strength(runs[i].data) # Strength(runs[i].tree)
    /\ GetIn(runs[i].data, CapacityPath) # GetIn(runs[i].tree, CapacityPath)
    /\ \E name \in Weapons(runs[i].tree) :
         GetIn(runs[i].data, MeleePath \o <<name>>) # GetIn(runs[i].tree, MeleePath \o <<name>>)
    /\ GetIn(runs[i].data, SkillsPath \o <<"climb">>)
         # GetIn(runs[i].tree, SkillsPath \o <<"climb">>)
    /\ GetIn(runs[i].tree, <<"character", "combat", "saves">>).t = "map"
    /\ GetIn(runs[i].tree, <<"character", "combat", "attack", "ranged">>).t = "map"
    /\ GetIn(runs[i].data, <<"character", "combat", "attack", "ranged">>)
         = GetIn(runs[i].tree, <<"character", "combat", "attack", "ranged">>)
    /\ GetIn(runs[i].tree, MeleePath \o <<"fist">>).t = "seq"
    /\ GetIn(runs[i].data, MeleePath \o <<"fist">>) = GetIn(runs[i].tree, MeleePath \o <<"fist">>)
    /\ GetIn(runs[i].data, SkillsPath \o <<"spot">>) = Stat(7, <<Pair("wis", Num(1)), Pair("ranks", Num(2))>>)

====
